---- MODULE Spec2Model ----
(***************************************************************************)
(* eXeViewer: the service worker (src/sw.js) that keeps the extracted     *)
(* package in memory, mirrors it in IndexedDB and answers the requests    *)
(* under /viewer/ from it; the page that extracts an archive with the zip *)
(* worker (src/js/zip.worker.js) and sends it to the service worker.      *)
(*                                                                         *)
(* Strings are sequences of one-character strings, so that substring,     *)
(* indexOf, toLowerCase and decodeURIComponent are computed, not assumed. *)
(* A file map (a JS object, then a Map) is a sequence of [key, value]     *)
(* entries in insertion order.  A file's bytes are a sequence of tokens.  *)
(***************************************************************************)
EXTENDS Integers, Sequences, FiniteSets, TLC

VARIABLES
    contentFiles,    \* sw.js:37  the Map path -> bytes, in insertion order
    contentReady,    \* sw.js:38
    contentOptions,  \* sw.js:41
    phase,           \* lifecycle of the worker: "installed", "activating", "activated"
    claimed,         \* whether clients.claim() has been called by this worker
    db,              \* the IndexedDB object store 'files': entries content, options
    dbQueue,         \* IndexedDB operations started and not yet completed, oldest first
    outbox,          \* messages posted to the page, in order
    nextId,          \* number of the next message the page posts
    lastCmd,         \* the last SET_CONTENT / CLEAR_CONTENT handled
    failedOps,       \* numbers of the messages whose IndexedDB operation failed
    event,           \* the event handled by the last step
    response,        \* the Response of the last viewer request
    page,            \* the page: its position in processFile, what it posted and got
    cache,           \* the Cache Storage: request URL -> Response, in insertion order
    zip              \* the extractions of the page and the zip worker serving them

vars == << contentFiles, contentReady, contentOptions, phase, claimed, db, dbQueue,
           outbox, nextId, lastCmd, failedOps, event, response, page,
           cache, zip >>

---------------------------------------------------------------------------
(* Bounds of the model *)

\* entries of a file map sent by the page
MaxFiles == 2
\* messages the page posts in one run
MaxMsgs == 2

---------------------------------------------------------------------------
(* JavaScript strings *)

\* the length of '/viewer/', the 8 of pathname.substring(viewerIndex + 8)
ViewerPrefixLen == 8

Str_viewer == << "/", "v", "i", "e", "w", "e", "r", "/" >>
Str_index_html == << "i", "n", "d", "e", "x", ".", "h", "t", "m", "l" >>
Str_slash_index_html == << "/" >> \o Str_index_html
Str_a_css == << "a", ".", "c", "s", "s" >>
Str_A_css == << "A", ".", "c", "s", "s" >>
Str_d_index_html == << "d", "/" >> \o Str_index_html

\* the lower-case letter of each ASCII upper-case letter
LowerCaseOf ==
    ("A" :> "a") @@ ("B" :> "b") @@ ("C" :> "c") @@ ("D" :> "d") @@ ("E" :> "e") @@ ("F" :> "f") @@
    ("G" :> "g") @@ ("H" :> "h") @@ ("I" :> "i") @@ ("J" :> "j") @@ ("K" :> "k") @@ ("L" :> "l") @@
    ("M" :> "m") @@ ("N" :> "n") @@ ("O" :> "o") @@ ("P" :> "p") @@ ("Q" :> "q") @@ ("R" :> "r") @@
    ("S" :> "s") @@ ("T" :> "t") @@ ("U" :> "u") @@ ("V" :> "v") @@ ("W" :> "w") @@ ("X" :> "x") @@
    ("Y" :> "y") @@ ("Z" :> "z")

\* String.prototype.toLowerCase, one character
LowerChar(c) == IF c \in DOMAIN LowerCaseOf THEN LowerCaseOf[c] ELSE c

toLowerCase(s) == [i \in 1..Len(s) |-> LowerChar(s[i])]

\* s.substring(from) with a 0-based index; a negative index counts as 0
substring(s, from) ==
    IF from < 0 THEN s ELSE SubSeq(s, from + 1, Len(s))

\* s.substring(from, to), for 0 <= from <= to <= s.length
substring2(s, from, to) == SubSeq(s, from + 1, to)

\* whether sub occurs in s at the 0-based index i
OccursAt(s, sub, i) ==
    /\ i >= 0
    /\ i + Len(sub) <= Len(s)
    /\ SubSeq(s, i + 1, i + Len(sub)) = sub

startsWith(s, sub) == OccursAt(s, sub, 0)

endsWith(s, sub) == OccursAt(s, sub, Len(s) - Len(sub))

\* the first 0-based index >= i at which sub occurs in s, -1 when there is none
RECURSIVE IndexFrom(_, _, _)
IndexFrom(s, sub, i) ==
    IF i + Len(sub) > Len(s) THEN -1
    ELSE IF OccursAt(s, sub, i) THEN i
    ELSE IndexFrom(s, sub, i + 1)

\* the last 0-based index <= i at which sub occurs in s, -1 when there is none
RECURSIVE LastIndexFrom(_, _, _)
LastIndexFrom(s, sub, i) ==
    IF i < 0 THEN -1
    ELSE IF OccursAt(s, sub, i) THEN i
    ELSE LastIndexFrom(s, sub, i - 1)

\* s.indexOf(sub)
indexOf(s, sub) == IndexFrom(s, sub, 0)

\* s.lastIndexOf(sub)
lastIndexOf(s, sub) == LastIndexFrom(s, sub, Len(s) - Len(sub))

\* s.includes(sub)
includes(s, sub) == indexOf(s, sub) # -1

\* value of a hexadecimal digit, -1 for any other character
HexVal(c) ==
    CASE c = "0" -> 0  [] c = "1" -> 1  [] c = "2" -> 2  [] c = "3" -> 3
      [] c = "4" -> 4  [] c = "5" -> 5  [] c = "6" -> 6  [] c = "7" -> 7
      [] c = "8" -> 8  [] c = "9" -> 9
      [] c \in {"a", "A"} -> 10  [] c \in {"b", "B"} -> 11
      [] c \in {"c", "C"} -> 12  [] c \in {"d", "D"} -> 13
      [] c \in {"e", "E"} -> 14  [] c \in {"f", "F"} -> 15
      [] OTHER -> -1

\* the printable ASCII characters, from code 32 (space) to code 126 (~); the
\* grave accent (code 96), which the lexer does not accept, is a named token
PrintableAscii ==
    <<
      " ", "!", "\"", "#", "$", "%", "&", "'", "(", ")", "*", "+", ",", "-", ".", "/",
      "0", "1", "2", "3", "4", "5", "6", "7", "8", "9", ":", ";", "<", "=", ">", "?",
      "@", "A", "B", "C", "D", "E", "F", "G", "H", "I", "J", "K", "L", "M", "N", "O",
      "P", "Q", "R", "S", "T", "U", "V", "W", "X", "Y", "Z", "[", "\\", "]", "^", "_",
      "<backtick>", "a", "b", "c", "d", "e", "f", "g", "h", "i", "j", "k", "l", "m", "n", "o",
      "p", "q", "r", "s", "t", "u", "v", "w", "x", "y", "z", "{", "|", "}", "~"
    >>

\* the character of an ASCII code; a control character is one opaque token
CharOfCode(b) ==
    IF b >= 32 /\ b <= 126 THEN PrintableAscii[b - 31] ELSE "<ctl>"

\* whether s[i..i+2] is an escape %XX
IsEscapeAt(s, i) ==
    /\ s[i] = "%"
    /\ i + 2 <= Len(s)
    /\ HexVal(s[i + 1]) >= 0
    /\ HexVal(s[i + 2]) >= 0

EscapedByte(s, i) == 16 * HexVal(s[i + 1]) + HexVal(s[i + 2])

\* decodeURIComponent throws URIError for a % that does not start two hex
\* digits and for an escaped byte that is not valid UTF-8 on its own.  The
\* paths of the model hold no multi-byte sequence: an escaped byte >= 128
\* stands alone.
RECURSIVE DecodeThrows(_, _)
DecodeThrows(s, i) ==
    IF i > Len(s) THEN FALSE
    ELSE IF s[i] # "%" THEN DecodeThrows(s, i + 1)
    ELSE IF ~IsEscapeAt(s, i) THEN TRUE
    ELSE IF EscapedByte(s, i) >= 128 THEN TRUE
    ELSE DecodeThrows(s, i + 3)

RECURSIVE DecodeFrom(_, _)
DecodeFrom(s, i) ==
    IF i > Len(s) THEN << >>
    ELSE IF s[i] # "%" THEN << s[i] >> \o DecodeFrom(s, i + 1)
    ELSE << CharOfCode(EscapedByte(s, i)) >> \o DecodeFrom(s, i + 3)

\* decodeURIComponent: [ok |-> TRUE, value |-> decoded], or ok |-> FALSE when
\* it throws
decodeURIComponent(s) ==
    IF DecodeThrows(s, 1)
    THEN [ok |-> FALSE, value |-> << >>]
    ELSE [ok |-> TRUE, value |-> DecodeFrom(s, 1)]

---------------------------------------------------------------------------
(* JavaScript Map and Object *)

\* the value of a missing key, and of a variable never assigned
Undefined == << "undefined" >>

\* !v for the values of the model: a file's bytes are an ArrayBuffer, an
\* object, so only undefined is falsy
Falsy(v) == v = Undefined

MapHas(m, k) == \E i \in 1..Len(m) : m[i].key = k

\* Map.prototype.get
MapGet(m, k) ==
    IF MapHas(m, k)
    THEN m[CHOOSE i \in 1..Len(m) : m[i].key = k].value
    ELSE Undefined

\* Map.prototype.set: an existing key keeps its place, a new one goes last
MapSet(m, k, v) ==
    IF MapHas(m, k)
    THEN [i \in 1..Len(m) |-> IF m[i].key = k THEN [key |-> k, value |-> v] ELSE m[i]]
    ELSE Append(m, [key |-> k, value |-> v])

\* new Map(entries)
RECURSIVE NewMapFrom(_, _)
NewMapFrom(m, entries) ==
    IF entries = << >> THEN m
    ELSE NewMapFrom(MapSet(m, Head(entries).key, Head(entries).value), Tail(entries))

NewMap(entries) == NewMapFrom(<< >>, entries)

\* Object.entries of a file map: the object is kept as its entries, in
\* property order
ObjectEntries(files) == files

\* Map.prototype.size
MapSize(m) == Len(m)

MapKeys(m) == {m[i].key : i \in 1..Len(m)}

---------------------------------------------------------------------------
(* Content options: an options object is a record; a property that the   *)
(* object does not have is "absent"; present = FALSE is null / undefined.  *)

DefaultOptions == [present |-> TRUE, openExternalLinksInNewWindow |-> "true"]

NullOptions == [present |-> FALSE, openExternalLinksInNewWindow |-> "absent"]

\* { ...a, ...b }
Spread(a, b) ==
    [present |-> TRUE,
     openExternalLinksInNewWindow |->
        IF b.present /\ b.openExternalLinksInNewWindow # "absent"
        THEN b.openExternalLinksInNewWindow
        ELSE a.openExternalLinksInNewWindow]

---------------------------------------------------------------------------
(* MIME types *)

MIME_TYPES ==
    { << << ".", "h", "t", "m", "l" >>, << "text/html", "; charset=utf-8" >> >>,
      << << ".", "h", "t", "m" >>, << "text/html", "; charset=utf-8" >> >>,
      << << ".", "c", "s", "s" >>, << "text/css", "; charset=utf-8" >> >>,
      << << ".", "j", "s" >>, << "application/javascript", "; charset=utf-8" >> >>,
      << << ".", "m", "j", "s" >>, << "application/javascript", "; charset=utf-8" >> >>,
      << << ".", "j", "s", "o", "n" >>, << "application/json", "; charset=utf-8" >> >>,
      << << ".", "p", "n", "g" >>, << "image/png" >> >>,
      << << ".", "j", "p", "g" >>, << "image/jpeg" >> >>,
      << << ".", "j", "p", "e", "g" >>, << "image/jpeg" >> >>,
      << << ".", "g", "i", "f" >>, << "image/gif" >> >>,
      << << ".", "s", "v", "g" >>, << "image/svg+xml" >> >>,
      << << ".", "i", "c", "o" >>, << "image/x-icon" >> >>,
      << << ".", "w", "e", "b", "p" >>, << "image/webp" >> >>,
      << << ".", "w", "o", "f", "f" >>, << "font/woff" >> >>,
      << << ".", "w", "o", "f", "f", "2" >>, << "font/woff2" >> >>,
      << << ".", "t", "t", "f" >>, << "font/ttf" >> >>,
      << << ".", "e", "o", "t" >>, << "application/vnd.ms-fontobject" >> >>,
      << << ".", "o", "t", "f" >>, << "font/otf" >> >>,
      << << ".", "m", "p", "3" >>, << "audio/mpeg" >> >>,
      << << ".", "m", "p", "4" >>, << "video/mp4" >> >>,
      << << ".", "w", "e", "b", "m" >>, << "video/webm" >> >>,
      << << ".", "o", "g", "g" >>, << "audio/ogg" >> >>,
      << << ".", "o", "g", "v" >>, << "video/ogg" >> >>,
      << << ".", "w", "a", "v" >>, << "audio/wav" >> >>,
      << << ".", "p", "d", "f" >>, << "application/pdf" >> >>,
      << << ".", "x", "m", "l" >>, << "application/xml" >> >>,
      << << ".", "x", "h", "t", "m", "l" >>, << "application/xhtml+xml" >> >>,
      << << ".", "t", "x", "t" >>, << "text/plain", "; charset=utf-8" >> >>,
      << << ".", "c", "s", "v" >>, << "text/csv", "; charset=utf-8" >> >>,
      << << ".", "z", "i", "p" >>, << "application/zip" >> >>,
      << << ".", "s", "w", "f" >>, << "application/x-shockwave-flash" >> >> }

Mime_octet_stream == << "application/octet-stream" >>

\* getMimeType: the extension is taken from the last '.', or is the whole
\* name when there is none (substring(-1))
getMimeType(filename) ==
    LET ext == toLowerCase(substring(filename, lastIndexOf(filename, << "." >>)))
    IN  IF \E e \in MIME_TYPES : e[1] = ext
        THEN (CHOOSE e \in MIME_TYPES : e[1] = ext)[2]
        ELSE Mime_octet_stream

---------------------------------------------------------------------------
(* Content Transformer *)

\* the injected block, one token
EXTERNAL_LINK_HANDLER_SCRIPT == << "<script data-injected-by=\"eXeViewer\">...</script>" >>

Tok_body_close == << "</body>" >>
Tok_html_close == << "</html>" >>

\* new TextDecoder('utf-8').decode: a leading byte order mark is dropped and a
\* byte that is not valid UTF-8 becomes U+FFFD; it does not throw
RECURSIVE ReplaceInvalid(_)
ReplaceInvalid(bytes) ==
    IF bytes = << >> THEN << >>
    ELSE << IF Head(bytes) = "<xFF>" THEN "<uFFFD>" ELSE Head(bytes) >>
            \o ReplaceInvalid(Tail(bytes))

TextDecode(bytes) ==
    IF bytes # << >> /\ Head(bytes) = "<BOM>"
    THEN ReplaceInvalid(Tail(bytes))
    ELSE ReplaceInvalid(bytes)

\* new TextEncoder().encode
TextEncode(str) == str

injectExternalLinkHandler(body) ==
    LET html == TextDecode(body)
        bodyCloseIndex == lastIndexOf(html, Tok_body_close)
        htmlCloseIndex == lastIndexOf(html, Tok_html_close)
        insertIndex == IF bodyCloseIndex # -1 THEN bodyCloseIndex
                       ELSE IF htmlCloseIndex # -1 THEN htmlCloseIndex
                       ELSE -1
    IN  IF insertIndex # -1
        THEN TextEncode(substring2(html, 0, insertIndex)
                        \o EXTERNAL_LINK_HANDLER_SCRIPT
                        \o substring(html, insertIndex))
        ELSE TextEncode(html \o EXTERNAL_LINK_HANDLER_SCRIPT)

---------------------------------------------------------------------------
(* The virtual file server *)

\* the three lookup rules of handleViewerRequest: exact key, index.html of a
\* path without '.', then the first key equal ignoring case
IndexPath(filePath) ==
    IF endsWith(filePath, << "/" >>)
    THEN filePath \o Str_index_html
    ELSE filePath \o Str_slash_index_html

\* for (const [key, value] of contentFiles): the value of the first key, from
\* entry i on, that equals the path ignoring case
RECURSIVE CaseInsensitiveFrom(_, _, _)
CaseInsensitiveFrom(files, lowerPath, i) ==
    IF i > Len(files) THEN Undefined
    ELSE IF toLowerCase(files[i].key) = lowerPath THEN files[i].value
    ELSE CaseInsensitiveFrom(files, lowerPath, i + 1)

\* mutant of CaseInsensitiveGet: the last key that equals the path ignoring
\* case, not the first
CaseInsensitiveGet_Last(files, filePath) ==
    LET same == { i \in 1..Len(files) :
                    toLowerCase(files[i].key) = toLowerCase(filePath) }
    IN  IF same = {} THEN Undefined
        ELSE files[CHOOSE i \in same : \A j \in same : j <= i].value

CaseInsensitiveGet(files, filePath) ==
    CaseInsensitiveFrom(files, toLowerCase(filePath), 1)

\* mutant of Lookup: no scan ignoring case
Lookup_NoCaseScan(files, filePath) ==
    LET exact == MapGet(files, filePath)
    IN  IF Falsy(exact) /\ ~includes(filePath, << "." >>)
        THEN MapGet(files, IndexPath(filePath))
        ELSE exact

\* mutant of Lookup: the scan ignoring case comes before the exact match
Lookup_CaseFirst(files, filePath) ==
    LET scanned == CaseInsensitiveGet(files, filePath)
        exact == IF Falsy(scanned) THEN MapGet(files, filePath) ELSE scanned
    IN  IF Falsy(exact) /\ ~includes(filePath, << "." >>)
        THEN MapGet(files, IndexPath(filePath))
        ELSE exact

Lookup(files, filePath) ==
    LET exact == MapGet(files, filePath)
        byIndex == IF Falsy(exact) /\ ~includes(filePath, << "." >>)
                   THEN MapGet(files, IndexPath(filePath))
                   ELSE exact
    IN  IF Falsy(byIndex) THEN CaseInsensitiveGet(files, filePath) ELSE byIndex

\* mutant of RawFilePath: only the empty remainder is the root
RawFilePath_EmptyOnly(pathname, viewerIndex) ==
    LET rest == substring(pathname, viewerIndex + ViewerPrefixLen)
        root == IF rest = << >> THEN Str_index_html ELSE rest
    IN  IF startsWith(root, << "/" >>) THEN substring(root, 1) ELSE root

\* the file path asked for: what follows /viewer/, index.html for the root,
\* without one leading slash, before decoding
RawFilePath(pathname, viewerIndex) ==
    LET rest == substring(pathname, viewerIndex + ViewerPrefixLen)
        root == IF rest = << >> \/ rest = << "/" >> THEN Str_index_html ELSE rest
    IN  IF startsWith(root, << "/" >>) THEN substring(root, 1) ELSE root

Body_not_loaded == << "Content not loaded. Please upload a ZIP file first." >>
Body_not_found == << "File not found: " >>
Mime_text_plain == << "text/plain" >>

NoResponse ==
    [status |-> -1, body |-> << >>, contentType |-> << >>,
     cacheControl |-> "", servedBy |-> ""]

\* handleViewerRequest rejects: respondWith gets a rejected promise and the
\* request ends as a network error, which has status 0
NetworkError ==
    [status |-> 0, body |-> << >>, contentType |-> << >>,
     cacheControl |-> "", servedBy |-> ""]

\* mutant of NotFoundResponse: the body does not name the path
NotFoundResponse_NoPath(filePath) ==
    [status |-> 404, body |-> Body_not_found, contentType |-> Mime_text_plain,
     cacheControl |-> "", servedBy |-> ""]

\* new Response(`File not found: ${filePath}`, { status: 404, ... })
NotFoundResponse(filePath) ==
    [status |-> 404, body |-> Body_not_found \o filePath,
     contentType |-> Mime_text_plain, cacheControl |-> "", servedBy |-> ""]

ServeFile(filePath, fileData, options) ==
    LET mimeType == getMimeType(filePath)
        body == IF startsWith(mimeType, << "text/html" >>)
                   /\ options.openExternalLinksInNewWindow = "true"
                THEN injectExternalLinkHandler(fileData)
                ELSE fileData
    IN  [status |-> 200, body |-> body, contentType |-> mimeType,
         cacheControl |-> "no-cache", servedBy |-> "eXeViewer-SW"]

handleViewerRequest(pathname, viewerIndex, files, ready, options) ==
    LET decoded == decodeURIComponent(RawFilePath(pathname, viewerIndex))
        filePath == decoded.value
        fileData == Lookup(files, filePath)
    IN  IF ~decoded.ok THEN NetworkError
        ELSE IF ~ready \/ MapSize(files) = 0
        THEN [status |-> 503, body |-> Body_not_loaded, contentType |-> Mime_text_plain,
              cacheControl |-> "", servedBy |-> ""]
        ELSE IF ~Falsy(fileData) THEN ServeFile(filePath, fileData, options)
        ELSE NotFoundResponse(filePath)

---------------------------------------------------------------------------
(* Inputs: the file maps and options a page sends, the paths requested *)

Keys == { Str_d_index_html, Str_a_css, Str_A_css }

\* the bytes of the file k of the n-th message: every archive has bytes of
\* its own, and an HTML document ends with its closing tags
Content(n, k) ==
    << ToString(n) >> \o k
        \o (IF endsWith(k, << ".", "h", "t", "m", "l" >>)
            THEN Tok_body_close \o Tok_html_close
            ELSE << >>)

\* the orders in which up to MaxFiles distinct keys can be inserted
KeyOrders ==
    { ks \in UNION { [1..n -> Keys] : n \in 0..MaxFiles } :
        \A i, j \in 1..Len(ks) : i # j => ks[i] # ks[j] }

FilesOf(n, ks) == [i \in 1..Len(ks) |-> [key |-> ks[i], value |-> Content(n, ks[i])]]

\* the options of a SET_CONTENT: none (src/js/app.js sends only the files), or
\* the page's configuration when it differs from the worker's default
OptionsInputs ==
    { NullOptions,
      [present |-> TRUE, openExternalLinksInNewWindow |-> "false"] }

\* pathnames of requests under the virtual prefix
RequestPathnames ==
    { Str_viewer,
      Str_viewer \o << "d" >>,
      Str_viewer \o Str_d_index_html,
      Str_viewer \o Str_A_css,
      Str_viewer \o << "a", "%", "2", "E", "c", "s", "s" >>,
      Str_viewer \o << "1", "0", "0", "%", ".", "p", "n", "g" >>,
      << "/", "a", "p", "p" >> \o Str_viewer \o << "/" >> \o Str_a_css }

---------------------------------------------------------------------------
(* State *)

\* a JS number: an integer, or NaN
JsNum(v) == [nan |-> FALSE, v |-> v]
NaN == [nan |-> TRUE, v |-> 0]

\* navigator.storage.estimate() is missing or fails: estimateStorage gives null
NoEstimate == [present |-> FALSE, quota |-> 0, usage |-> 0, available |-> 0]

SW_VERSION == "1.7.0"

EmptyStore == [content |-> << >>, options |-> << >>]

NoCmd == [type |-> "none", id |-> 0, files |-> << >>, options |-> NullOptions]

Event(type, id, files, options, pathname, error) ==
    [type |-> type, id |-> id, files |-> files, options |-> options,
     pathname |-> pathname, error |-> error]

PlainEvent(type) == Event(type, 0, << >>, NullOptions, << >>, "none")

DbOp(op, files, options, re) ==
    [op |-> op, files |-> files, options |-> options, re |-> re]

Reply(type, re, ready, fileCount, storageError) ==
    [type |-> type, re |-> re, ready |-> ready, fileCount |-> fileCount,
     storageError |-> storageError, version |-> SW_VERSION]

\* the documents of the app shell, './' and './index.html' of APP_SHELL_FILES,
\* for a worker whose scope is the root
Str_root == << "/" >>
Str_root_index_html == << "/" >> \o Str_index_html

\* a document as the network gave it when it was asked for url
Document(url, version) ==
    [status |-> 200, body |-> << version >> \o url,
     contentType |-> << "text/html" >>, cacheControl |-> "", servedBy |-> ""]

\* the cache of this version after cache.addAll(APP_SHELL_FILES)
AppShellCache ==
    << [key |-> Str_root, value |-> Document(Str_root, "shell")],
       [key |-> Str_root_index_html, value |-> Document(Str_root_index_html, "shell")] >>

\* the page before it loads anything: nothing posted, nothing read
PageInit ==
    [pos |-> "idle", sent |-> << >>, loadFrom |-> 0, read |-> 0, archive |-> << >>,
     files |-> << >>, validate |-> TRUE, estimate |-> NoEstimate,
     filesSize |-> NaN, storageWarning |-> FALSE, fileCount |-> 0,
     storageError |-> "none", clearedBy |-> "none", readyBy |-> "none",
     error |-> "none"]

\* the page before it extracts anything: no call of extractZipContents, the
\* zip worker has got and posted nothing
ZipInit == [loads |-> << >>, stage |-> << >>, out |-> << >>, read |-> 0]

\* the script has been evaluated and the install event handled
Init ==
    /\ contentFiles = << >>
    /\ contentReady = FALSE
    /\ contentOptions = DefaultOptions
    /\ phase = "installed"
    /\ claimed = FALSE
    /\ db = EmptyStore
    /\ dbQueue = << >>
    /\ outbox = << >>
    /\ nextId = 1
    /\ lastCmd = NoCmd
    /\ failedOps = {}
    /\ event = PlainEvent("init")
    /\ response = NoResponse
    /\ page = PageInit
    /\ cache = AppShellCache
    /\ zip = ZipInit

---------------------------------------------------------------------------
(* Lifecycle *)

\* a new version of the worker is installed: its script is evaluated, the
\* install listener fills the cache of this version with the app shell and
\* skips waiting.  The caches of the older versions are deleted by the
\* activate listener, before this version handles a request: the cache is
\* that of this version alone.
Install ==
    /\ phase = "activated"
    /\ dbQueue = << >>
    /\ contentFiles' = << >>
    /\ contentReady' = FALSE
    /\ contentOptions' = DefaultOptions
    /\ phase' = "installed"
    /\ claimed' = FALSE
    /\ event' = PlainEvent("install")
    /\ response' = NoResponse
    /\ cache' = AppShellCache
    /\ UNCHANGED << page, zip >>
    /\ UNCHANGED << db, dbQueue, outbox, nextId, lastCmd, failedOps >>

\* the activate listener up to its call of loadFromIndexedDB
Activate ==
    /\ phase = "installed"
    /\ phase' = "activating"
    /\ dbQueue' = Append(dbQueue, DbOp("load", << >>, NullOptions, 0))
    /\ event' = PlainEvent("activate")
    /\ response' = NoResponse
    /\ UNCHANGED << page, cache, zip >>
    /\ UNCHANGED << contentFiles, contentReady, contentOptions, claimed, db,
                    outbox, nextId, lastCmd, failedOps >>

\* the host stops the idle worker and starts it again for the next event:
\* the script is evaluated anew, no install or activate event is fired
Recycle ==
    /\ phase = "activated"
    /\ dbQueue = << >>
    /\ contentFiles' = << >>
    /\ contentReady' = FALSE
    /\ contentOptions' = DefaultOptions
    /\ event' = PlainEvent("recycle")
    /\ response' = NoResponse
    /\ UNCHANGED << page, cache, zip >>
    /\ UNCHANGED << phase, claimed, db, dbQueue, outbox, nextId, lastCmd, failedOps >>

---------------------------------------------------------------------------
(* Messages from the page *)

\* mutant of InstallFiles: the entries are set into the current Map
InstallFiles_Merge(current, files) == NewMapFrom(current, ObjectEntries(files))

\* contentFiles = new Map(Object.entries(data.files)): a new Map, whatever
\* the current one holds
InstallFiles(current, files) == NewMap(ObjectEntries(files))

\* mutant of ClearFiles: the Map is left as it is, only the flag is reset
ClearFiles_Keep(current) == current

\* contentFiles.clear()
ClearFiles(current) == << >>

CanReceive == phase \in {"activating", "activated"} /\ nextId <= MaxMsgs

SetContent(files, options) ==
    LET newOptions == IF options.present THEN Spread(contentOptions, options)
                      ELSE contentOptions
    IN  /\ CanReceive
        /\ contentFiles' = InstallFiles(contentFiles, files)
        /\ contentReady' = TRUE
        /\ contentOptions' = newOptions
        /\ dbQueue' = Append(dbQueue, DbOp("save", files, newOptions, nextId))
        /\ lastCmd' = [type |-> "SET_CONTENT", id |-> nextId, files |-> files,
                       options |-> options]
        /\ event' = Event("SET_CONTENT", nextId, files, options, << >>, "none")
        /\ nextId' = nextId + 1
        /\ response' = NoResponse
        /\ UNCHANGED << page, cache, zip >>
        /\ UNCHANGED << phase, claimed, db, outbox, failedOps >>

ClearContent ==
    /\ CanReceive
    /\ contentFiles' = ClearFiles(contentFiles)
    /\ contentReady' = FALSE
    /\ dbQueue' = Append(dbQueue, DbOp("clear", << >>, NullOptions, nextId))
    /\ outbox' = Append(outbox, Reply("CONTENT_CLEARED", nextId, FALSE, 0, "none"))
    /\ lastCmd' = [type |-> "CLEAR_CONTENT", id |-> nextId, files |-> << >>,
                   options |-> NullOptions]
    /\ event' = Event("CLEAR_CONTENT", nextId, << >>, NullOptions, << >>, "none")
    /\ nextId' = nextId + 1
    /\ response' = NoResponse
    /\ UNCHANGED << page, cache, zip >>
    /\ UNCHANGED << contentOptions, phase, claimed, db, failedOps >>

GetStatus ==
    /\ CanReceive
    /\ outbox' = Append(outbox,
                    Reply("STATUS", nextId, contentReady, MapSize(contentFiles), "none"))
    /\ event' = Event("GET_STATUS", nextId, << >>, NullOptions, << >>, "none")
    /\ nextId' = nextId + 1
    /\ response' = NoResponse
    /\ UNCHANGED << page, cache, zip >>
    /\ UNCHANGED << contentFiles, contentReady, contentOptions, phase, claimed, db,
                    dbQueue, lastCmd, failedOps >>

\* the page posts CLAIM_CLIENTS to the active worker when it has no controller
ClaimClients ==
    /\ phase \in {"activating", "activated"}
    /\ ~claimed
    /\ claimed' = TRUE
    /\ event' = PlainEvent("CLAIM_CLIENTS")
    /\ response' = NoResponse
    /\ UNCHANGED << page, cache, zip >>
    /\ UNCHANGED << contentFiles, contentReady, contentOptions, phase, db, dbQueue,
                    outbox, nextId, lastCmd, failedOps >>

---------------------------------------------------------------------------
(* Requests *)

\* the fetch listener for a pathname that contains /viewer/; fetch events
\* are dispatched once the worker is activated
FetchViewer(pathname) ==
    /\ phase = "activated"
    /\ includes(pathname, Str_viewer)
    /\ response' = handleViewerRequest(pathname, indexOf(pathname, Str_viewer),
                                       contentFiles, contentReady, contentOptions)
    /\ event' = Event("fetch", 0, << >>, NullOptions, pathname, "none")
    /\ UNCHANGED << page, cache, zip >>
    /\ UNCHANGED << contentFiles, contentReady, contentOptions, phase, claimed, db,
                    dbQueue, outbox, nextId, lastCmd, failedOps >>

---------------------------------------------------------------------------
(* IndexedDB: the operations run one at a time, in the order they started *)

QuotaError ==
    [name |-> "QuotaExceededError", message |-> "The quota has been exceeded.",
     mentionsQuota |-> TRUE]

OtherError ==
    [name |-> "UnknownError", message |-> "Internal error.", mentionsQuota |-> FALSE]

DbErrors == { QuotaError, OtherError }

\* err.name === 'QuotaExceededError' || (err.message && err.message.includes('quota'))
IsQuotaError(err) ==
    \/ err.name = "QuotaExceededError"
    \/ (err.message # "" /\ err.mentionsQuota)

\* the catch block of saveToIndexedDB: the value it resolves with
SaveCaught(err) ==
    IF IsQuotaError(err) THEN "QUOTA_EXCEEDED"
    ELSE IF err.message # "" THEN err.message
    ELSE "UNKNOWN_ERROR"

\* mutant of SetContentCaught: every failure is reported as STORAGE_ERROR
SetContentCaught_Generic(err) == "STORAGE_ERROR"

\* the catch handler of the SET_CONTENT listener: the errorType it reports
SetContentCaught(err) ==
    IF IsQuotaError(err) THEN "QUOTA_EXCEEDED" ELSE "STORAGE_ERROR"

DbHead(op) == dbQueue # << >> /\ Head(dbQueue).op = op

\* the CONTENT_READY message posted when the save of a SET_CONTENT settles
ContentReady(op, storageError) ==
    Reply("CONTENT_READY", op.re, FALSE, MapSize(contentFiles), storageError)

\* the step that settles the oldest operation; a failure is remembered
DbDone(type, error) ==
    /\ dbQueue' = Tail(dbQueue)
    /\ failedOps' = IF error = "none" THEN failedOps
                    ELSE failedOps \cup {Head(dbQueue).re}
    /\ event' = Event(type, Head(dbQueue).re, << >>, NullOptions, << >>, error)
    /\ response' = NoResponse
    /\ UNCHANGED << page, cache, zip >>

\* mutant of StoreAfterSave: only the content entry is written
StoreAfterSave_ContentOnly(store, files, options) ==
    [content |-> << files >>, options |-> << >>]

\* mutant of StoreAfterSave: the entries are added to what the store holds
StoreAfterSave_Append(store, files, options) ==
    [content |-> store.content \o << files >>,
     options |-> store.options \o << options >>]

\* store.clear(); store.put(files, 'content'); store.put(options, 'options')
StoreAfterSave(store, files, options) ==
    [content |-> << files >>, options |-> << options >>]

\* mutant of StoreAfterClear: the store is not cleared
StoreAfterClear_Noop(store) == store

\* store.clear()
StoreAfterClear(store) == EmptyStore

\* tx.oncomplete of saveToIndexedDB, then the listener's then-callback
SaveCommitted ==
    /\ DbHead("save")
    /\ db' = StoreAfterSave(db, Head(dbQueue).files, Head(dbQueue).options)
    /\ outbox' = Append(outbox, ContentReady(Head(dbQueue), "none"))
    /\ DbDone("save_committed", "none")
    /\ UNCHANGED << contentFiles, contentReady, contentOptions, phase, claimed,
                    nextId, lastCmd >>

\* openDB rejects: saveToIndexedDB catches and resolves with success: false
SaveOpenFailed(err) ==
    /\ DbHead("save")
    /\ outbox' = Append(outbox, ContentReady(Head(dbQueue), SaveCaught(err)))
    /\ DbDone("save_open_failed", err.name)
    /\ UNCHANGED << contentFiles, contentReady, contentOptions, phase, claimed, db,
                    nextId, lastCmd >>

\* mutant of SaveAborted: the catch-callback posts nothing
SaveAborted_NoReply(err) ==
    /\ DbHead("save")
    /\ DbDone("save_aborted", err.name)
    /\ UNCHANGED << contentFiles, contentReady, contentOptions, phase, claimed, db,
                    outbox, nextId, lastCmd >>

\* tx.onerror / tx.onabort: the promise saveToIndexedDB returned rejects and
\* the listener's catch-callback runs; the transaction leaves the store as it was
SaveAborted(err) ==
    /\ DbHead("save")
    /\ outbox' = Append(outbox, ContentReady(Head(dbQueue), SetContentCaught(err)))
    /\ DbDone("save_aborted", err.name)
    /\ UNCHANGED << contentFiles, contentReady, contentOptions, phase, claimed, db,
                    nextId, lastCmd >>

\* tx.oncomplete of clearIndexedDB
ClearCommitted ==
    /\ DbHead("clear")
    /\ db' = StoreAfterClear(db)
    /\ DbDone("clear_committed", "none")
    /\ UNCHANGED << contentFiles, contentReady, contentOptions, phase, claimed,
                    outbox, nextId, lastCmd >>

\* openDB rejects (caught and logged) or the transaction fails (the promise
\* nobody awaits rejects)
ClearFailed ==
    /\ DbHead("clear")
    /\ DbDone("clear_failed", OtherError.name)
    /\ UNCHANGED << contentFiles, contentReady, contentOptions, phase, claimed, db,
                    outbox, nextId, lastCmd >>

\* contentRequest.result || null, optionsRequest.result || null
Stored == db

\* tx.oncomplete of loadFromIndexedDB, then the rest of the activate listener
LoadCompleted ==
    /\ DbHead("load")
    /\ IF Stored.content # << >>
       THEN /\ contentFiles' = NewMap(ObjectEntries(Stored.content[1]))
            /\ contentReady' = TRUE
       ELSE UNCHANGED << contentFiles, contentReady >>
    /\ IF Stored.options # << >>
       THEN contentOptions' = Spread(contentOptions, Stored.options[1])
       ELSE UNCHANGED contentOptions
    /\ claimed' = TRUE
    /\ phase' = "activated"
    /\ DbDone("load_completed", "none")
    /\ UNCHANGED << db, outbox, nextId, lastCmd >>

\* openDB rejects: loadFromIndexedDB catches and resolves with nulls
LoadOpenFailed ==
    /\ DbHead("load")
    /\ claimed' = TRUE
    /\ phase' = "activated"
    /\ DbDone("load_open_failed", OtherError.name)
    /\ UNCHANGED << contentFiles, contentReady, contentOptions, db, outbox, nextId,
                    lastCmd >>

\* tx.onerror: the promise loadFromIndexedDB returned rejects, and with it
\* the chain given to waitUntil; the worker is activated all the same
LoadAborted ==
    /\ DbHead("load")
    /\ phase' = "activated"
    /\ DbDone("load_aborted", OtherError.name)
    /\ UNCHANGED << contentFiles, contentReady, contentOptions, claimed, db, outbox,
                    nextId, lastCmd >>

---------------------------------------------------------------------------
(* Specification *)

Next ==
    \/ Install
    \/ Activate
    \/ Recycle
    \/ \E n \in {nextId} : \E ks \in KeyOrders : \E o \in OptionsInputs :
          SetContent(FilesOf(n, ks), o)
    \/ ClearContent
    \/ GetStatus
    \/ ClaimClients
    \/ \E p \in RequestPathnames : FetchViewer(p)
    \/ SaveCommitted
    \/ \E err \in DbErrors : SaveOpenFailed(err)
    \/ \E err \in DbErrors : SaveAborted(err)
    \/ ClearCommitted
    \/ ClearFailed
    \/ LoadCompleted
    \/ LoadOpenFailed
    \/ LoadAborted

Spec == Init /\ [][Next]_vars

\* an IndexedDB operation that was started settles: the host fires the
\* success or the error event of every request and transaction
DbStep ==
    \/ SaveCommitted
    \/ \E err \in DbErrors : SaveOpenFailed(err)
    \/ \E err \in DbErrors : SaveAborted(err)
    \/ ClearCommitted
    \/ ClearFailed
    \/ LoadCompleted
    \/ LoadOpenFailed
    \/ LoadAborted

\* the messages and the persistence they start, without the viewer requests,
\* which change neither the queue of operations nor the messages posted
MessageNext ==
    \/ Install
    \/ Activate
    \/ Recycle
    \/ \E n \in {nextId} : \E ks \in KeyOrders : \E o \in OptionsInputs :
          SetContent(FilesOf(n, ks), o)
    \/ ClearContent
    \/ GetStatus
    \/ ClaimClients
    \/ DbStep

FairSpec == Init /\ [][MessageNext]_vars /\ WF_vars(DbStep)

\* the page sends the archive it sent last once more, with the same options
SetContentAgain ==
    /\ lastCmd.type = "SET_CONTENT"
    /\ SetContent(lastCmd.files, lastCmd.options)

ResendNext == MessageNext \/ SetContentAgain

ResendSpec == Init /\ [][ResendNext]_vars

---------------------------------------------------------------------------
(* Serving: one installed archive, of files of many shapes, and the requests
   made of it *)

Str_v1_d == << "v", ".", "1", "/", "d" >>

\* HTML documents: with both closing tags, with </html> only, with neither,
\* with two </body>, with a byte order mark, with a byte that is not UTF-8
Body_full == << "<h1>" >> \o Tok_body_close \o Tok_html_close
Body_htmlOnly == << "<h2>" >> \o Tok_html_close
Body_none == << "<h3>" >>
Body_twoBodies == << "<h4>" >> \o Tok_body_close \o << "<i>" >> \o Tok_body_close
Body_bom == << "<BOM>", "<h5>" >> \o Tok_body_close
Body_latin1 == << "<h6>", "<xFF>" >> \o Tok_body_close \o Tok_html_close

\* the entries an archive is made of
ServeEntries ==
    { [key |-> Str_d_index_html, value |-> Body_full],
      [key |-> << "D" >>, value |-> << "f" >>],
      [key |-> Str_a_css, value |-> << "c" >>],
      [key |-> Str_A_css, value |-> << "C" >>],
      [key |-> Str_v1_d \o Str_slash_index_html, value |-> Body_htmlOnly],
      [key |-> Str_a_css \o Str_slash_index_html, value |-> << "<h7>" >>],
      [key |-> << "p", ".", "h", "t", "m" >>, value |-> Body_bom],
      [key |-> << "q", ".", "h", "t", "m", "l" >>, value |-> Body_latin1],
      [key |-> << "n", ".", "h", "t", "m", "l" >>, value |-> Body_none],
      [key |-> << "t", ".", "h", "t", "m", "l" >>, value |-> Body_twoBodies] }

\* the files objects of up to MaxFiles entries, in every order
ServeFileMaps ==
    { fs \in UNION { [1..n -> ServeEntries] : n \in 0..MaxFiles } :
        \A i, j \in 1..Len(fs) : i # j => fs[i].key # fs[j].key }

ServeOptions ==
    { NullOptions, [present |-> TRUE, openExternalLinksInNewWindow |-> "false"] }

ServePathnames ==
    { Str_viewer \o p : p \in
        { << >>, << "d" >>, << "d", "/" >>, << "D" >>, Str_d_index_html,
          << "D", "/", "I", "N", "D", "E", "X", ".", "H", "T", "M", "L" >>,
          Str_a_css, << "A", ".", "C", "S", "S" >>,
          Str_v1_d, Str_v1_d \o << "/" >>,
          << "p", ".", "h", "t", "m" >>, << "P", ".", "H", "T", "M" >>,
          << "q", ".", "h", "t", "m", "l" >>, << "n", ".", "h", "t", "m", "l" >>,
          << "t", ".", "h", "t", "m", "l" >>, << "m", ".", "p", "n", "g" >> } }

\* the worker was activated with nothing stored, one SET_CONTENT was handled
\* and its save failed at the opening of the database
ServeInit ==
    \E files \in ServeFileMaps : \E o \in ServeOptions :
        /\ contentFiles = InstallFiles(<< >>, files)
        /\ contentReady = TRUE
        /\ contentOptions = (IF o.present THEN Spread(DefaultOptions, o)
                             ELSE DefaultOptions)
        /\ phase = "activated"
        /\ claimed = TRUE
        /\ db = EmptyStore
        /\ dbQueue = << >>
        /\ outbox = << Reply("CONTENT_READY", 1, FALSE, Len(files),
                             SaveCaught(OtherError)) >>
        /\ nextId = 2
        /\ lastCmd = [type |-> "SET_CONTENT", id |-> 1, files |-> files,
                      options |-> o]
        /\ failedOps = {1}
        /\ event = Event("save_open_failed", 1, << >>, NullOptions, << >>,
                         OtherError.name)
        /\ response = NoResponse
        /\ page = PageInit
        /\ cache = AppShellCache
        /\ zip = ZipInit

ServeNext == \E p \in ServePathnames : FetchViewer(p)

ServeSpec == ServeInit /\ [][ServeNext]_vars

---------------------------------------------------------------------------
(* The page's load flow: its messages go through
   navigator.serviceWorker.controller, and processFile clears before it sends *)

\* the page is controlled: a worker claimed it, or it has posted a message
\* through its controller before (a new version takes over the clients)
HasController == claimed \/ nextId > 1

\* clearServiceWorkerContent: CLEAR_CONTENT is posted, and the flow goes on
\* when CONTENT_CLEARED arrives or after 2 s
PageClear == HasController /\ ClearContent

\* sendContentToServiceWorker, which processFile calls after it awaited
\* clearServiceWorkerContent; the clear step posts nothing when the page has
\* no controller yet
PageSend(files, options) ==
    /\ HasController
    /\ \/ lastCmd.type = "CLEAR_CONTENT"
       \/ (lastCmd = NoCmd /\ nextId = 1)
    /\ SetContent(files, options)

\* checkSavedContent
PageStatus == HasController /\ GetStatus

PageNext ==
    \/ Install
    \/ Activate
    \/ Recycle
    \/ ClaimClients
    \/ PageClear
    \/ \E n \in {nextId} : \E ks \in KeyOrders : \E o \in OptionsInputs :
          PageSend(FilesOf(n, ks), o)
    \/ PageStatus
    \/ \E p \in RequestPathnames : FetchViewer(p)
    \/ DbStep

PageSpec == Init /\ [][PageNext]_vars

---------------------------------------------------------------------------
(* The archive and its extraction (src/js/zip.worker.js) *)

Str_m_slash == << "m", "/" >>
Str_base_css == << "c", "o", "n", "t", "e", "n", "t", "/", "c", "s", "s", "/", "b", "a", "s", "e", ".", "c", "s", "s" >>
Str_exe_export_js == << "l", "i", "b", "s", "/", "e", "x", "e", "_", "e", "x", "p", "o", "r", "t", ".", "j", "s" >>
Str_common_js == << "l", "i", "b", "s", "/", "c", "o", "m", "m", "o", "n", ".", "j", "s" >>

\* what stands in an archive where the bytes are not those of an entry: a
\* corrupt central directory, truncated data
CorruptEntry == [key |-> << "<corrupt>" >>, value |-> << >>]

\* the entries an archive is made of: a folder m (a zero-length directory
\* entry), files in it and below it, files outside it, a file whose name
\* begins with the separator and one with the separator doubled after m
ZipEntries ==
    { [key |-> Str_m_slash, value |-> << >>],
      [key |-> Str_m_slash \o Str_index_html, value |-> << "i" >>],
      [key |-> Str_m_slash \o Str_a_css, value |-> << "c" >>],
      [key |-> Str_m_slash \o << "s" >> \o Str_slash_index_html, value |-> << "n" >>],
      [key |-> Str_index_html, value |-> << "r" >>],
      [key |-> << "x", ".", "t", "x", "t" >>, value |-> << "t", "t" >>],
      [key |-> << "/" >> \o Str_a_css, value |-> << "l" >>],
      [key |-> Str_m_slash \o << "/" >> \o Str_a_css, value |-> << "d" >>] }

\* an exported package (type 2), wrapped in the folder m
WrappedPackage ==
    << [key |-> Str_m_slash \o Str_index_html, value |-> << "i" >>],
       [key |-> Str_m_slash \o Str_base_css, value |-> << "b" >>],
       [key |-> Str_m_slash \o Str_exe_export_js, value |-> << "e" >>],
       [key |-> Str_m_slash \o Str_common_js, value |-> << "j" >>] >>

\* the archives a user gives: up to MaxFiles distinct entries in every
\* order, each also with its end corrupt, and the exported package
ZipArchives ==
    LET whole == { a \in UNION { [1..n -> ZipEntries] : n \in 0..MaxFiles } :
                      \A i, j \in 1..Len(a) : i # j => a[i].key # a[j].key }
    IN  whole \cup { Append(a, CorruptEntry) : a \in whole } \cup { WrappedPackage }

IsHtmlName(f) ==
    endsWith(f, << ".", "h", "t", "m", "l" >>) \/ endsWith(f, << ".", "h", "t", "m" >>)

IsIndexName(f) == f = Str_index_html \/ endsWith(f, Str_slash_index_html)

\* f.split('/').length
SplitLength(f) == Cardinality({ i \in 1..Len(f) : f[i] = "/" }) + 1

\* mutant of findCommonPrefix: the first folder of the index file found is
\* the prefix at whatever depth the file lies
findCommonPrefix_AnyDepth(fileList) ==
    LET htmlFiles == SelectSeq(fileList, IsHtmlName)
        indexFiles == SelectSeq(htmlFiles, IsIndexName)
    IN  IF htmlFiles = << >> THEN << >>
        ELSE IF indexFiles # << >> /\ includes(Head(indexFiles), << "/" >>)
        THEN substring2(Head(indexFiles), 0, indexOf(Head(indexFiles), << "/" >>))
                \o << "/" >>
        ELSE << >>

\* findCommonPrefix: '' or 'folder/'
findCommonPrefix(fileList) ==
    LET htmlFiles == SelectSeq(fileList, IsHtmlName)
        indexFiles == SelectSeq(htmlFiles, IsIndexName)
    IN  IF htmlFiles = << >> THEN << >>
        ELSE IF /\ indexFiles # << >>
                /\ includes(Head(indexFiles), << "/" >>)
                /\ SplitLength(Head(indexFiles)) = 2
        THEN substring2(Head(indexFiles), 0, indexOf(Head(indexFiles), << "/" >>))
                \o << "/" >>
        ELSE << >>

\* Object.keys
ObjectKeys(obj) == [i \in 1..Len(obj) |-> obj[i].key]

\* the loop of the worker over the entries: zero-length entries and empty
\* paths are skipped, the prefix is cut off the paths that start with it.
\* The map is worked out at each entry, as the loop does, and not left to
\* the end of the list.
RECURSIVE ExtractInto(_, _, _)
ExtractInto(files, unzipped, commonPrefix) ==
    IF unzipped = << >> THEN files
    ELSE LET path == Head(unzipped).key
             content == Head(unzipped).value
             normalizedPath == IF commonPrefix # << >> /\ startsWith(path, commonPrefix)
                               THEN substring(path, Len(commonPrefix))
                               ELSE path
             stored == MapSet(files, normalizedPath, content)
         IN  IF Len(content) = 0 \/ normalizedPath = << >> \/ stored = files
             THEN ExtractInto(files, Tail(unzipped), commonPrefix)
             ELSE ExtractInto(stored, Tail(unzipped), commonPrefix)

\* mutant of Unzip: the entries read before the corrupt part are given
Unzip_Partial(archive) ==
    [err |-> "none",
     unzipped |-> SelectSeq(archive, LAMBDA e : e # CorruptEntry)]

\* fflate.unzip: the callback gets an error, or all the entries
Unzip(archive) ==
    IF \E i \in 1..Len(archive) : archive[i] = CorruptEntry
    THEN [err |-> "invalid zip data", unzipped |-> << >>]
    ELSE [err |-> "none", unzipped |-> archive]

\* self.onmessage of the worker: the message it posts to the page
ZipWorker(archive) ==
    LET u == Unzip(archive)
        files == ExtractInto(<< >>, u.unzipped, findCommonPrefix(ObjectKeys(u.unzipped)))
    IN  IF u.err # "none"
        THEN [type |-> "error", message |-> u.err, files |-> << >>, fileCount |-> 0]
        ELSE [type |-> "complete", message |-> "none", files |-> files,
              fileCount |-> Len(files)]

---------------------------------------------------------------------------
(* The page (src/unnamed/part_002): processFile, from the archive the user
   gives to the viewer shown.  The messages the page posted are handled by
   the worker in their order; the message numbered nextId is the oldest one
   not handled yet. *)

Msg(type, files, options) == [type |-> type, files |-> files, options |-> options]

\* hasFile of isValidExeContent: some key equals path ignoring case
HasFile(files, path) ==
    \E i \in 1..Len(files) : toLowerCase(files[i].key) = toLowerCase(path)

isValidExeContent(files) ==
    \/ /\ HasFile(files, Str_index_html)
       /\ HasFile(files, << "b", "a", "s", "e", ".", "c", "s", "s" >>)
       /\ HasFile(files, << "n", "a", "v", ".", "c", "s", "s" >>)
       /\ HasFile(files, << "c", "o", "m", "m", "o", "n", ".", "j", "s" >>)
       /\ HasFile(files, << "e", "x", "e", "_", "j", "q", "u", "e", "r", "y", ".", "j", "s" >>)
    \/ /\ HasFile(files, Str_index_html)
       /\ HasFile(files, Str_base_css)
       /\ HasFile(files, Str_exe_export_js)
       /\ HasFile(files, Str_common_js)

\* a + b of JS numbers
JsAdd(a, b) == IF a.nan \/ b.nan THEN NaN ELSE JsNum(a.v + b.v)

\* files[path].length: the values the zip worker gives are ArrayBuffers, which
\* have a byteLength and no length; undefined in a sum is NaN
LengthProperty(buffer) == NaN

\* calculateFilesSize: Math.ceil(totalSize * 1.1)
RECURSIVE TotalSize(_)
TotalSize(files) ==
    IF files = << >> THEN JsNum(0)
    ELSE JsAdd(JsAdd(TotalSize(SubSeq(files, 1, Len(files) - 1)),
                     JsNum(Len(files[Len(files)].key))),
               LengthProperty(files[Len(files)].value))

calculateFilesSize(files) ==
    LET totalSize == TotalSize(files)
    IN  IF totalSize.nan THEN NaN ELSE JsNum((11 * totalSize.v + 9) \div 10)

\* estimateStorage, given what navigator.storage.estimate() reports
estimateStorage(quota, usage) ==
    [present |-> TRUE, quota |-> quota, usage |-> usage, available |-> quota - usage]

\* what the host reports: little room left, much room left, or nothing
StorageEstimates ==
    { NoEstimate, estimateStorage(40, 20), estimateStorage(1000, 0) }

\* filesSize > storageEstimate.available * 0.8; a comparison with NaN is false
ExceedsWarningLevel(filesSize, available) ==
    ~filesSize.nan /\ 10 * filesSize.v > 8 * available

WorkerVars ==
    << contentFiles, contentReady, contentOptions, phase, claimed, db, dbQueue,
       outbox, nextId, lastCmd, failedOps, event, response, cache >>

\* processFile up to the call of clearServiceWorkerContent, which returns at
\* once when the page has no controller and posts CLEAR_CONTENT otherwise
StartLoad(archive) ==
    /\ page.pos \in {"idle", "shown", "failed"}
    /\ page' = [PageInit EXCEPT
                  !.validate = page.validate,
                  !.read = page.read,
                  !.loadFrom = Len(page.sent),
                  !.archive = archive,
                  !.sent = IF HasController
                           THEN Append(page.sent, Msg("CLEAR_CONTENT", << >>, NullOptions))
                           ELSE page.sent,
                  !.pos = IF HasController THEN "clearing" ELSE "cleared",
                  !.clearedBy = IF HasController THEN "none" ELSE "nocontroller"]
    /\ UNCHANGED << WorkerVars, zip >>

\* a load for whose two messages there is room
PageStartLoad(archive) ==
    /\ Len(page.sent) + 2 <= MaxMsgs
    /\ StartLoad(archive)

\* the worker handles the oldest message the page posted
Deliver ==
    /\ nextId <= Len(page.sent)
    /\ IF page.sent[nextId].type = "CLEAR_CONTENT"
       THEN ClearContent
       ELSE SetContent(page.sent[nextId].files, page.sent[nextId].options)

\* a message event on navigator.serviceWorker: the listener of the wait in
\* progress looks at the type of the message only
PageReceive ==
    /\ page.read < Len(outbox)
    /\ LET m == outbox[page.read + 1]
       IN  page' =
             IF page.pos = "clearing" /\ m.type = "CONTENT_CLEARED"
             THEN [page EXCEPT !.read = @ + 1, !.pos = "cleared", !.clearedBy = "ack"]
             ELSE IF page.pos = "sending" /\ m.type = "CONTENT_READY"
             THEN [page EXCEPT !.read = @ + 1, !.pos = "shown", !.readyBy = "ack",
                               !.fileCount = m.fileCount,
                               !.storageError = m.storageError]
             ELSE [page EXCEPT !.read = @ + 1]
    /\ UNCHANGED << WorkerVars, zip >>

\* setTimeout(resolve, 2000) of clearServiceWorkerContent
ClearTimeout ==
    /\ page.pos = "clearing"
    /\ page' = [page EXCEPT !.pos = "cleared", !.clearedBy = "timeout"]
    /\ UNCHANGED << WorkerVars, zip >>

\* mutant of SendTimeout: the wait for CONTENT_READY rejects when its time is up
SendTimeout_Reject ==
    /\ page.pos = "sending"
    /\ page' = [page EXCEPT !.pos = "failed", !.error = "timeout"]
    /\ UNCHANGED << WorkerVars, zip >>

\* the 10 s timeout of sendContentToServiceWorker: it resolves with the
\* number of the files sent and no storageError, and processFile goes on
SendTimeout ==
    /\ page.pos = "sending"
    /\ page' = [page EXCEPT !.pos = "shown", !.readyBy = "timeout",
                            !.fileCount = Len(ObjectKeys(page.files)),
                            !.storageError = "none"]
    /\ UNCHANGED << WorkerVars, zip >>

\* extractZipContents and the checks of processFile on what it gives
PageExtract ==
    /\ page.pos = "cleared"
    /\ LET w == ZipWorker(page.archive)
           reason ==
             IF w.type = "error" THEN w.message
             ELSE IF Len(ObjectKeys(w.files)) = 0 THEN "emptyZip"
             ELSE IF page.validate /\ ~isValidExeContent(w.files) THEN "notExeContent"
             ELSE IF /\ ~MapHas(w.files, Str_index_html)
                     /\ \A i \in 1..Len(w.files) : ~IsHtmlName(w.files[i].key)
             THEN "noHtmlFiles"
             ELSE "none"
       IN  page' = IF reason = "none"
                   THEN [page EXCEPT !.pos = "extracted", !.files = w.files]
                   ELSE [page EXCEPT !.pos = "failed", !.error = reason]
    /\ UNCHANGED << WorkerVars, zip >>

\* waitForController rejects after 5 s without a controller
ControllerTimeout ==
    /\ page.pos = "extracted"
    /\ ~HasController
    /\ page' = [page EXCEPT !.pos = "failed", !.error = "swTimeout"]
    /\ UNCHANGED << WorkerVars, zip >>

\* sendContentToServiceWorker once the page has a controller: the storage
\* check, then SET_CONTENT is posted and the wait for CONTENT_READY starts
SendContent(storageEstimate) ==
    /\ page.pos = "extracted"
    /\ HasController
    /\ LET filesSize == calculateFilesSize(page.files)
       IN  page' = [page EXCEPT
                      !.pos = "sending",
                      !.estimate = storageEstimate,
                      !.filesSize = filesSize,
                      !.storageWarning =
                          /\ storageEstimate.present
                          /\ ExceedsWarningLevel(filesSize, storageEstimate.available),
                      !.sent = Append(@, Msg("SET_CONTENT", page.files, DefaultOptions))]
    /\ UNCHANGED << WorkerVars, zip >>

\* an activated worker with nothing stored; the page is controlled or not,
\* and validates the packages or not
LoadInit ==
    /\ contentFiles = << >>
    /\ contentReady = FALSE
    /\ contentOptions = DefaultOptions
    /\ phase = "activated"
    /\ claimed \in BOOLEAN
    /\ db = EmptyStore
    /\ dbQueue = << >>
    /\ outbox = << >>
    /\ nextId = 1
    /\ lastCmd = NoCmd
    /\ failedOps = {}
    /\ event = PlainEvent("init")
    /\ response = NoResponse
    /\ \E v \in BOOLEAN : page = [PageInit EXCEPT !.validate = v]
    /\ cache = AppShellCache
    /\ zip = ZipInit

LoadNext ==
    \/ \E archive \in ZipArchives : PageStartLoad(archive)
    \/ PageExtract
    \/ ControllerTimeout
    \/ \E e \in StorageEstimates : SendContent(e)
    \/ Deliver
    \/ PageReceive
    \/ ClearTimeout
    \/ SendTimeout
    \/ ClaimClients
    \/ SaveCommitted
    \/ \E err \in DbErrors : SaveOpenFailed(err)
    \/ \E err \in DbErrors : SaveAborted(err)
    \/ ClearCommitted
    \/ ClearFailed

LoadSpec == LoadInit /\ [][LoadNext]_vars

\* the timers of the page fire
LoadFairSpec == LoadSpec /\ WF_vars(ClearTimeout) /\ WF_vars(SendTimeout)

\* a load started while the page has posted fewer than MaxMsgs messages:
\* after a load that ended, by its failure or with the viewer shown
PageReload(archive) ==
    /\ Len(page.sent) < MaxMsgs
    /\ StartLoad(archive)

\* the page loads one archive after the other: the exported package, or an
\* archive that cannot be read
ReloadNext ==
    \/ \E archive \in { WrappedPackage, << CorruptEntry >> } : PageReload(archive)
    \/ PageExtract
    \/ ControllerTimeout
    \/ SendContent(NoEstimate)
    \/ Deliver
    \/ PageReceive
    \/ ClearTimeout
    \/ SendTimeout
    \/ ClaimClients
    \/ SaveCommitted
    \/ \E err \in DbErrors : SaveOpenFailed(err)
    \/ \E err \in DbErrors : SaveAborted(err)
    \/ ClearCommitted
    \/ ClearFailed

ReloadSpec == LoadInit /\ [][ReloadNext]_vars

---------------------------------------------------------------------------
(* Requests outside /viewer/: the navigation branch of the fetch listener *)

\* cache.addAll(APP_SHELL_FILES) rejects, which the install listener only
\* logs: the cache of the new version holds nothing
InstallShellFailed ==
    /\ phase = "activated"
    /\ dbQueue = << >>
    /\ contentFiles' = << >>
    /\ contentReady' = FALSE
    /\ contentOptions' = DefaultOptions
    /\ phase' = "installed"
    /\ claimed' = FALSE
    /\ event' = PlainEvent("install")
    /\ response' = NoResponse
    /\ cache' = << >>
    /\ UNCHANGED << db, dbQueue, outbox, nextId, lastCmd, failedOps, page, zip >>

\* the URLs navigated to: the root, a page that is not in the app shell, and
\* the root with a query
NavigationUrls ==
    { Str_root, << "/", "h", ".", "h", "t", "m", "l" >>, << "/", "?", "u" >> }

\* what fetch(event.request) gives: a response that is ok, one that is not,
\* or a rejection
NetworkOutcomes == { "ok", "notok", "failed" }

NetworkResponse(url, net) ==
    IF net = "ok" THEN Document(url, "live")
    ELSE [status |-> 404, body |-> << "live" >> \o url,
          contentType |-> << "text/html" >>, cacheControl |-> "", servedBy |-> ""]

\* caches.match: the Response stored for url, undefined when there is none
CachesMatch(c, url) == MapGet(c, url)

\* what the page gets for a navigation request: the value respondWith
\* settles with, and a network error when that value is undefined
NavigationResult(c, url, net) ==
    IF MapHas(c, url) THEN CachesMatch(c, url)
    ELSE IF net # "failed" THEN NetworkResponse(url, net)
    ELSE IF MapHas(c, Str_root_index_html) THEN CachesMatch(c, Str_root_index_html)
    ELSE NetworkError

\* the fetch listener for a request of mode 'navigate' whose pathname does
\* not contain /viewer/; a network response that is ok is put into the cache
FetchNavigate(url, net) ==
    /\ phase = "activated"
    /\ ~includes(url, Str_viewer)
    /\ response' = NavigationResult(cache, url, net)
    /\ cache' = IF ~MapHas(cache, url) /\ net = "ok"
                THEN MapSet(cache, url, NetworkResponse(url, net))
                ELSE cache
    /\ event' = Event("navigate", 0, << >>, NullOptions, url, net)
    /\ UNCHANGED << contentFiles, contentReady, contentOptions, phase, claimed, db,
                    dbQueue, outbox, nextId, lastCmd, failedOps, page, zip >>

NavNext ==
    \/ \E url \in NavigationUrls : \E net \in NetworkOutcomes : FetchNavigate(url, net)
    \/ Install
    \/ InstallShellFailed
    \/ Activate
    \/ LoadCompleted
    \/ LoadOpenFailed
    \/ LoadAborted

NavSpec == Init /\ [][NavNext]_vars

---------------------------------------------------------------------------
(* The zip worker as the page uses it (part_002: extractZipContents;
   zip.worker.js: self.onmessage).  The page keeps one worker for all its
   extractions; each call of extractZipContents sets worker.onmessage to
   the handlers of its own promise and posts its file.  The messages the
   worker posts carry no mark of the request they belong to; the field
   'of' is kept here to tell them apart. *)

\* calls of extractZipContents in one life of the page
MaxLoads == 2

Digits == << "0", "1", "2", "3", "4", "5", "6", "7", "8", "9" >>

\* an archive of n files p00, p01, ...
FilesArchive(n) ==
    [i \in 1..n |-> [key |-> << "p", Digits[((i - 1) \div 10) + 1],
                                Digits[((i - 1) % 10) + 1] >>,
                     value |-> << "b" >>]]

\* the number of entries after which the extraction of src/js/app.js shows
\* 'processed N of total' (processed % 50 === 0)
ProgressPeriod == 50

LargeArchive == FilesArchive(ProgressPeriod)

\* the archives of a first extraction, and those of the later ones
FirstArchives == ZipArchives \cup { LargeArchive }

LaterArchives ==
    { << [key |-> Str_index_html, value |-> << "r" >>] >>,
      << [key |-> Str_m_slash \o Str_index_html, value |-> << "i" >>],
         [key |-> Str_m_slash \o Str_a_css, value |-> << "c" >>] >>,
      << CorruptEntry >> }

\* file.arrayBuffer() gives the bytes, or rejects (the file was changed or
\* removed after the user chose it)
ReadOutcomes == { "ok", "NotReadableError" }

ZipPosted(i, type, message, files, fileCount) ==
    [of |-> i, type |-> type, message |-> message, files |-> files,
     fileCount |-> fileCount]

\* extractZipContents: the promise is created, worker.onmessage is set to
\* its handlers, the file is posted
ExtractStart(archive) ==
    /\ Len(zip.loads) < MaxLoads
    /\ zip' = [zip EXCEPT
                 !.loads = Append(@, [archive |-> archive, status |-> "pending",
                                      files |-> << >>, message |-> "none"]),
                 !.stage = Append(@, "posted")]
    /\ UNCHANGED << WorkerVars, page >>

\* self.onmessage begins for the oldest file posted: it posts 'reading' and
\* waits for the bytes of the file
ZipOnMessage ==
    /\ \E i \in 1..Len(zip.stage) :
          /\ zip.stage[i] = "posted"
          /\ \A j \in 1..(i - 1) : zip.stage[j] # "posted"
          /\ zip' = [zip EXCEPT
                       !.stage[i] = "reading",
                       !.out = Append(@, ZipPosted(i, "progress", "reading", << >>, 0))]
    /\ UNCHANGED << WorkerVars, page >>

\* the wait for file.arrayBuffer() ends: fflate.unzip is called, or the
\* rejection is caught and posted
ZipFileRead(i, outcome) ==
    /\ i \in 1..Len(zip.stage)
    /\ zip.stage[i] = "reading"
    /\ zip' = IF outcome = "ok"
              THEN [zip EXCEPT !.stage[i] = "unzipping"]
              ELSE [zip EXCEPT
                      !.stage[i] = "done",
                      !.out = Append(@, ZipPosted(i, "error", outcome, << >>, 0))]
    /\ UNCHANGED << WorkerVars, page >>

\* the callback of fflate.unzip: 'error', or 'complete' with the file map
ZipCallback(i) ==
    /\ i \in 1..Len(zip.stage)
    /\ zip.stage[i] = "unzipping"
    /\ LET w == ZipWorker(zip.loads[i].archive)
       IN  zip' = [zip EXCEPT
                     !.stage[i] = "done",
                     !.out = Append(@, ZipPosted(i, w.type, w.message, w.files,
                                                 w.fileCount))]
    /\ UNCHANGED << WorkerVars, page >>

\* worker.onmessage on the page: the handlers are those of the last call of
\* extractZipContents; a promise already settled stays as it is
WorkerOnMessage ==
    /\ zip.read < Len(zip.out)
    /\ LET m == zip.out[zip.read + 1]
           h == Len(zip.loads)
           settles == zip.loads[h].status = "pending"
       IN  zip' =
             IF m.type = "complete" /\ settles
             THEN [zip EXCEPT !.read = @ + 1,
                              !.loads[h].status = "resolved",
                              !.loads[h].files = m.files]
             ELSE IF m.type = "error" /\ settles
             THEN [zip EXCEPT !.read = @ + 1,
                              !.loads[h].status = "rejected",
                              !.loads[h].message = m.message]
             ELSE [zip EXCEPT !.read = @ + 1]
    /\ UNCHANGED << WorkerVars, page >>

ZipNext ==
    \/ \E archive \in (IF zip.loads = << >> THEN FirstArchives ELSE LaterArchives) :
          ExtractStart(archive)
    \/ ZipOnMessage
    \/ \E i \in 1..MaxLoads : \E outcome \in ReadOutcomes : ZipFileRead(i, outcome)
    \/ \E i \in 1..MaxLoads : ZipCallback(i)
    \/ WorkerOnMessage

ZipSpec == Init /\ [][ZipNext]_vars

---------------------------------------------------------------------------
(* The other messages and the other requests: the rest of the message
   listener and of the fetch listener *)

\* mutant of SkipWaiting: the worker starts anew, with nothing in memory
SkipWaiting_Restart ==
    /\ CanReceive
    /\ contentFiles' = << >>
    /\ contentReady' = FALSE
    /\ event' = PlainEvent("SKIP_WAITING")
    /\ response' = NoResponse
    /\ UNCHANGED << page, cache, zip >>
    /\ UNCHANGED << contentOptions, phase, claimed, db,
                    dbQueue, outbox, nextId, lastCmd, failedOps >>

\* SKIP_WAITING: self.skipWaiting(), which does nothing in a worker that is
\* active already
SkipWaiting ==
    /\ CanReceive
    /\ event' = PlainEvent("SKIP_WAITING")
    /\ response' = NoResponse
    /\ UNCHANGED << page, cache, zip >>
    /\ UNCHANGED << contentFiles, contentReady, contentOptions, phase, claimed, db,
                    dbQueue, outbox, nextId, lastCmd, failedOps >>

\* a message of a type the listener does not know, or with no type: the
\* default branch, which at most logs a warning
UnknownMessage ==
    /\ CanReceive
    /\ event' = PlainEvent("UNKNOWN")
    /\ response' = NoResponse
    /\ UNCHANGED << page, cache, zip >>
    /\ UNCHANGED << contentFiles, contentReady, contentOptions, phase, claimed, db,
                    dbQueue, outbox, nextId, lastCmd, failedOps >>

Str_lang_json == << "/", "l", "a", "n", "g", "/", "e", "s", ".", "j", "s", "o", "n" >>
Str_app_js == << "/", "j", "s", "/", "a", "p", "p", ".", "j", "s" >>

\* a language file: the network first, and the cache when the network fails
FetchLang(url, net) ==
    /\ phase = "activated"
    /\ ~includes(url, Str_viewer)
    /\ endsWith(url, << ".", "j", "s", "o", "n" >>)
    /\ includes(url, << "/", "l", "a", "n", "g", "/" >>)
    /\ response' = IF net # "failed" THEN NetworkResponse(url, net)
                   ELSE IF MapHas(cache, url) THEN CachesMatch(cache, url)
                   ELSE NetworkError
    /\ cache' = IF net = "ok" THEN MapSet(cache, url, NetworkResponse(url, net))
                ELSE cache
    /\ event' = Event("fetch_lang", 0, << >>, NullOptions, url, net)
    /\ UNCHANGED << contentFiles, contentReady, contentOptions, phase, claimed, db,
                    dbQueue, outbox, nextId, lastCmd, failedOps, page, zip >>

\* any other request: the cache first, then the network, whose response is
\* put into the cache when its status is 200 and whose failure is thrown on
FetchOther(url, net) ==
    /\ phase = "activated"
    /\ ~includes(url, Str_viewer)
    /\ ~(endsWith(url, << ".", "j", "s", "o", "n" >>)
           /\ includes(url, << "/", "l", "a", "n", "g", "/" >>))
    /\ response' = IF MapHas(cache, url) THEN CachesMatch(cache, url)
                   ELSE IF net # "failed" THEN NetworkResponse(url, net)
                   ELSE NetworkError
    /\ cache' = IF ~MapHas(cache, url) /\ net = "ok"
                THEN MapSet(cache, url, NetworkResponse(url, net))
                ELSE cache
    /\ event' = Event("fetch_other", 0, << >>, NullOptions, url, net)
    /\ UNCHANGED << contentFiles, contentReady, contentOptions, phase, claimed, db,
                    dbQueue, outbox, nextId, lastCmd, failedOps, page, zip >>

\* the worker with every message and every request it can get; one archive
\* and one pathname stand for the viewer's content and its requests
ListenerNext ==
    \/ Install
    \/ Activate
    \/ Recycle
    \/ \E o \in OptionsInputs : SetContent(FilesOf(nextId, << Str_d_index_html >>), o)
    \/ ClearContent
    \/ GetStatus
    \/ ClaimClients
    \/ SkipWaiting
    \/ UnknownMessage
    \/ FetchViewer(Str_viewer \o << "d", "/" >>)
    \/ \E net \in NetworkOutcomes : FetchNavigate(<< "/", "?", "u" >>, net)
    \/ \E net \in NetworkOutcomes : FetchLang(Str_lang_json, net)
    \/ \E net \in NetworkOutcomes : FetchOther(Str_app_js, net)
    \/ DbStep

ListenerSpec == Init /\ [][ListenerNext]_vars

---------------------------------------------------------------------------
(* The routing of the fetch listener: which requests go to the viewer *)

\* the pathnames requested: under /viewer/ in several ways, and not
RoutedPathnames ==
    { Str_viewer,
      Str_viewer \o << "/" >>,
      Str_viewer \o Str_d_index_html,
      Str_viewer \o << "/" >> \o Str_a_css,
      Str_viewer \o << "%", "2", "F" >> \o Str_a_css,
      Str_viewer \o << "a", "%", "2", "E", "c", "s", "s" >>,
      Str_viewer \o << "%", "z", "z" >>,
      << "/", "a", "p", "p" >> \o Str_viewer \o << "v", "i", "e", "w", "e", "r", "/" >>
          \o Str_a_css,
      << "/", "l", "a", "n", "g" >> \o Str_viewer \o << "e", "s", ".", "j", "s", "o", "n" >>,
      << "/", "v", "i", "e", "w", "e", "r" >>,
      << "/", "v", "i", "e", "w", "e", "r", "s", "/" >> \o Str_a_css,
      Str_lang_json }

\* a request arrives; its mode is 'navigate' or not; the network answers
\* the request of a language file and fails otherwise
RequestNext ==
    \E p \in RoutedPathnames :
        \/ FetchViewer(p)
        \/ FetchNavigate(p, "failed")
        \/ FetchLang(p, "ok")
        \/ FetchOther(p, "failed")

RequestSpec == ServeInit /\ [][RequestNext]_vars

---------------------------------------------------------------------------
(* A page opened on a worker that holds a saved package (part_002:
   processFile; sw.js: the message listener and the life cycle).  The
   package was installed and saved by an earlier page; the worker has been
   activated since. *)

\* the file map the earlier page sent
SavedPackage == ZipWorker(WrappedPackage).files

\* the archives given to the new page: of no entry, of one entry, and the
\* exported package
CheckedArchives ==
    { a \in ZipArchives : Len(a) <= 1 /\ CorruptEntry \notin { a[i] : i \in 1..Len(a) } }
        \cup { WrappedPackage }

SavedInit ==
    /\ contentFiles = InstallFiles(<< >>, SavedPackage)
    /\ contentReady = TRUE
    /\ contentOptions = DefaultOptions
    /\ phase = "activated"
    /\ claimed = TRUE
    /\ db = StoreAfterSave(EmptyStore, SavedPackage, DefaultOptions)
    /\ dbQueue = << >>
    /\ outbox = << >>
    /\ nextId = 1
    /\ lastCmd = NoCmd
    /\ failedOps = {}
    /\ event = PlainEvent("init")
    /\ response = NoResponse
    /\ \E v \in BOOLEAN : page = [PageInit EXCEPT !.validate = v]
    /\ cache = AppShellCache
    /\ zip = ZipInit

SavedNext ==
    \/ \E archive \in CheckedArchives : PageStartLoad(archive)
    \/ PageExtract
    \/ SendContent(NoEstimate)
    \/ Deliver
    \/ PageReceive
    \/ ClearTimeout
    \/ SendTimeout
    \/ Install
    \/ Activate
    \/ Recycle
    \/ DbStep

SavedSpec == SavedInit /\ [][SavedNext]_vars

---------------------------------------------------------------------------
(* Claims *)

KeysOf(files) == {files[i].key : i \in 1..Len(files)}

\* the decoded file path of the request handled last
RequestedPath ==
    decodeURIComponent(RawFilePath(event.pathname, indexOf(event.pathname, Str_viewer)))

\* none of the three lookup rules finds a key of files for path
Unresolvable(files, path) ==
    /\ path \notin KeysOf(files)
    /\ includes(path, << "." >>) \/ IndexPath(path) \notin KeysOf(files)
    /\ \A k \in KeysOf(files) : toLowerCase(k) # toLowerCase(path)

\* the paths probed by the claims: the keys, and what the requests ask for
ProbePaths ==
    Keys \cup { << "d" >>, << "d", "/" >>, Str_index_html,
                << "m", ".", "p", "n", "g" >> }

LastReply == outbox[Len(outbox)]

C2_NotReady503 ==
    (event.type = "fetch" /\ (~contentReady \/ MapSize(contentFiles) = 0))
        => response.status = 503

\* C3: when the context is ready with a non-empty ContentSet and none of the
\* lookup rules resolves the requested path, the response has status 404 and
\* its body contains the requested path.
C3_NotFound404 ==
    ( /\ event.type = "fetch"
      /\ RequestedPath.ok
      /\ contentReady
      /\ MapSize(contentFiles) > 0
      /\ Unresolvable(contentFiles, RequestedPath.value) )
        => /\ response.status = 404
           /\ includes(response.body, RequestedPath.value)

\* a request for a missing path against a ready, non-empty ContentSet
C3_Witness ==
    /\ event.type = "fetch"
    /\ RequestedPath.ok
    /\ contentReady
    /\ MapSize(contentFiles) = 2
    /\ Unresolvable(contentFiles, RequestedPath.value)
    /\ response.status = 404

\* C4: from the handling of CLEAR_CONTENT until the next SET_CONTENT is
\* handled, the context is not ready and holds no file, so every lookup
\* fails and GET_STATUS reports ready = false, fileCount = 0.
C4_ClearedUntilNextSet ==
    lastCmd.type = "CLEAR_CONTENT" =>
        /\ ~contentReady
        /\ MapSize(contentFiles) = 0
        /\ \A p \in ProbePaths : Falsy(Lookup(contentFiles, p))

\* C5: right after SET_CONTENT(F2) is handled the served set is exactly F2:
\* fileCount is the size of F2 and a path that F2 does not resolve is not
\* resolved, whatever was live before.
C5_InstallReplaces ==
    event.type = "SET_CONTENT" =>
        /\ contentReady
        /\ MapSize(contentFiles) = Len(event.files)
        /\ KeysOf(contentFiles) = KeysOf(event.files)
        /\ \A p \in ProbePaths :
              Unresolvable(event.files, p) => Falsy(Lookup(contentFiles, p))

\* the second SET_CONTENT, handled while the saved first ContentSet holds a
\* key that the new one does not
C5_Witness ==
    /\ event.type = "SET_CONTENT"
    /\ event.id = 2
    /\ db.content # << >>
    /\ \E k \in KeysOf(db.content[1]) : Unresolvable(event.files, k)
    /\ Len(event.files) > 0
    /\ Len(dbQueue) = 1

\* the file map of one whole SET_CONTENT message
WholeFileMap(files) ==
    \E n \in 1..MaxMsgs : \E ks \in KeyOrders : files = FilesOf(n, ks)

\* C6: whatever the interleaving of requests, SET_CONTENT and CLEAR_CONTENT,
\* a request is answered from one ContentSet only: the state a lookup reads
\* is (not ready, no file) or (ready, the whole file map of one message),
\* and the response is the one that state gives.
C6_AtomicInstall ==
    /\ \/ (~contentReady /\ contentFiles = << >>)
       \/ (contentReady /\ WholeFileMap(contentFiles))
    /\ event.type = "fetch" =>
          response = handleViewerRequest(event.pathname,
                                         indexOf(event.pathname, Str_viewer),
                                         contentFiles, contentReady, contentOptions)

\* a request served from the second ContentSet while its save is in flight
C6_Witness ==
    /\ event.type = "fetch"
    /\ response.status = 200
    /\ lastCmd.type = "SET_CONTENT"
    /\ lastCmd.id = 2
    /\ dbQueue # << >>
    /\ contentFiles = lastCmd.files

\* a non-empty ContentSet is persisted
PersistedNonEmpty == db.content # << >> /\ Len(db.content[1]) > 0

\* C7: when the host recycles the context while a non-empty ContentSet is
\* persisted, the request answered next does not get 503.
C7_RecoverAfterRecycle ==
    [][ ( /\ event.type = "recycle"
          /\ PersistedNonEmpty
          /\ event'.type = "fetch"
          /\ RequestedPath'.ok )
        => response'.status # 503 ]_vars

\* C8: when the save of the SET_CONTENT handled last fails with a quota
\* error, at the opening of the database or at the abort of the transaction,
\* the context stays ready and the CONTENT_READY posted for it carries
\* storageError = QUOTA_EXCEEDED.
C8_QuotaKeepsContent ==
    ( /\ event.type \in {"save_open_failed", "save_aborted"}
      /\ event.error = QuotaError.name
      /\ lastCmd.id = event.id )
        => /\ contentReady
           /\ LastReply.type = "CONTENT_READY"
           /\ LastReply.re = event.id
           /\ LastReply.storageError = "QUOTA_EXCEEDED"
           /\ LastReply.fileCount = MapSize(contentFiles)

\* the transaction of a save of two files aborts for lack of quota
C8_Witness ==
    /\ event.type = "save_aborted"
    /\ event.error = QuotaError.name
    /\ lastCmd.id = event.id
    /\ MapSize(contentFiles) = 2
    /\ contentFiles = lastCmd.files

\* the CONTENT_READY messages posted in answer to message n
ReadyReplies(n) ==
    { i \in 1..Len(outbox) : outbox[i].type = "CONTENT_READY" /\ outbox[i].re = n }

\* the save of message n has started and has not settled
SavePending(n) ==
    \E i \in 1..Len(dbQueue) : dbQueue[i].op = "save" /\ dbQueue[i].re = n

C10_PersistenceMirrors ==
    (dbQueue = << >> /\ failedOps \ {0} = {})
        => /\ lastCmd.type = "CLEAR_CONTENT" => db = EmptyStore
           /\ (lastCmd.type = "SET_CONTENT" /\ contentReady)
                 => db.content = << lastCmd.files >>

\* a SET_CONTENT then a CLEAR_CONTENT, both persisted
C10_Witness ==
    /\ lastCmd.type = "CLEAR_CONTENT"
    /\ lastCmd.id = 2
    /\ dbQueue = << >>
    /\ failedOps = {}
    /\ Len(outbox) = 2
    /\ \E i \in 1..2 : outbox[i].type = "CONTENT_READY" /\ outbox[i].fileCount > 0
    /\ db = EmptyStore

\* C11: in every committed state of the store the content and options
\* entries are both present or both absent, and there is no other entry.
C11_StoreEntriesTogether ==
    /\ DOMAIN db = {"content", "options"}
    /\ (db.content = << >>) <=> (db.options = << >>)
    /\ Len(db.content) <= 1 /\ Len(db.options) <= 1

\* the save of the second message has committed over an earlier state
C11_Witness ==
    /\ event.type = "save_committed"
    /\ event.id = 2
    /\ db.content # << >>
    /\ db.options # << >>

\* C12: handling SET_CONTENT(F, O) a second time right after the first
\* leaves the ready flag, the file map, fileCount, the options and every
\* lookup as they were, and the commit of a save of what the store already
\* holds leaves the store as it was: the entries are overwritten.
C12_InstallIdempotent ==
    [][ /\ ( /\ event.type = "SET_CONTENT"
             /\ event'.type = "SET_CONTENT"
             /\ event'.files = event.files
             /\ event'.options = event.options )
           => /\ contentReady /\ contentReady'
              /\ contentFiles' = contentFiles
              /\ MapSize(contentFiles') = MapSize(contentFiles)
              /\ contentOptions' = contentOptions
              /\ \A p \in ProbePaths :
                    Lookup(contentFiles', p) = Lookup(contentFiles, p)
        /\ ( /\ event'.type = "save_committed"
             /\ dbQueue # << >>
             /\ db.content = << Head(dbQueue).files >>
             /\ db.options = << Head(dbQueue).options >> )
           => db' = db ]_vars

\* the same two files were sent twice and both saves have committed
C12_Witness ==
    /\ event.type = "save_committed"
    /\ event.id = 2
    /\ lastCmd.id = 2
    /\ \E ks \in KeyOrders : Len(ks) = 2 /\ lastCmd.files = FilesOf(1, ks)
    /\ Len(outbox) = 2
    /\ \A i \in 1..2 : outbox[i].type = "CONTENT_READY" /\ outbox[i].storageError = "none"
    /\ db.content = << lastCmd.files >>

\* C13: when nothing is saved, or the opening of the database or the read
\* transaction fails, the load ends without a rejection: the activation goes
\* on, the clients are claimed, and the context is not ready unless a
\* SET_CONTENT was handled meanwhile.
C13_LoadNeverRejects ==
    ( /\ event.type \in {"load_completed", "load_open_failed", "load_aborted"}
      /\ (event.type = "load_completed" => db.content = << >>) )
        => /\ phase = "activated"
           /\ claimed
           /\ lastCmd.type # "SET_CONTENT" => ~contentReady

\* C14: every request under the virtual prefix, whether or not its
\* percent-escapes are well-formed and whatever the serving state, is
\* answered with a response of status 200, 404 or 503.
C14_RequestNeverFails ==
    event.type = "fetch" => response.status \in {200, 404, 503}

\* the key that the lookup rules resolve path to; << >> when none does
ResolvedKey(files, path) ==
    LET lower == toLowerCase(path)
        same == { i \in 1..Len(files) : toLowerCase(files[i].key) = lower }
    IN  IF ~Falsy(MapGet(files, path)) THEN path
        ELSE IF ~includes(path, << "." >>) /\ ~Falsy(MapGet(files, IndexPath(path)))
        THEN IndexPath(path)
        ELSE IF same # {}
        THEN files[CHOOSE i \in same : \A j \in same : i <= j].key
        ELSE << >>

\* the last segment of path has no extension
ExtensionLess(path) == lastIndexOf(path, << "." >>) <= lastIndexOf(path, << "/" >>)

\* directories asked for
DirProbes == { << "d" >>, << "D" >>, Str_v1_d }

\* C15: for every extension-less path d such that the ContentSet holds
\* d/index.html and no key d, the lookups of d and of d/ both give the
\* content of d/index.html, and a request for either is answered 200.
C15_DirectoryIndex ==
    \A d \in DirProbes :
        ( /\ event.type = "fetch"
          /\ RequestedPath.ok
          /\ RequestedPath.value \in { d, d \o << "/" >> }
          /\ ExtensionLess(d)
          /\ MapHas(contentFiles, d \o Str_slash_index_html)
          /\ ~MapHas(contentFiles, d) )
            => /\ Lookup(contentFiles, d) = MapGet(contentFiles, d \o Str_slash_index_html)
               /\ Lookup(contentFiles, d \o << "/" >>)
                     = MapGet(contentFiles, d \o Str_slash_index_html)
               /\ response.status = 200

\* k is the only key of files that equals path ignoring case, and is not path
OnlyCaseMatch(files, k, path) ==
    /\ MapHas(files, k)
    /\ k # path
    /\ toLowerCase(k) = toLowerCase(path)
    /\ \A k2 \in KeysOf(files) : toLowerCase(k2) = toLowerCase(k) => k2 = k

\* C16 as stated: a request for a path that differs only in letter case from
\* a stored key k, no other key being equal to k ignoring case, is answered
\* with the content of k.
C16_CaseInsensitiveAsStated ==
    \A k \in KeysOf(contentFiles) :
        ( /\ event.type = "fetch"
          /\ RequestedPath.ok
          /\ OnlyCaseMatch(contentFiles, k, RequestedPath.value) )
            => /\ Lookup(contentFiles, RequestedPath.value) = Lookup(contentFiles, k)
               /\ response.status = 200

\* C16 (amended): the same, provided the index.html rule, which comes first,
\* does not resolve the requested path: the path contains a '.', or the
\* ContentSet holds no index.html below it.
C16_CaseInsensitiveFallback ==
    \A k \in KeysOf(contentFiles) :
        ( /\ event.type = "fetch"
          /\ RequestedPath.ok
          /\ OnlyCaseMatch(contentFiles, k, RequestedPath.value)
          /\ \/ includes(RequestedPath.value, << "." >>)
             \/ ~MapHas(contentFiles, IndexPath(RequestedPath.value)) )
            => /\ Lookup(contentFiles, RequestedPath.value) = Lookup(contentFiles, k)
               /\ Lookup(contentFiles, k) = MapGet(contentFiles, k)
               /\ response.status = 200

\* the file D is asked for as d, and there is no d/index.html
C16_Witness ==
    /\ event.type = "fetch"
    /\ RequestedPath.ok
    /\ RequestedPath.value = << "d" >>
    /\ OnlyCaseMatch(contentFiles, << "D" >>, << "d" >>)
    /\ MapSize(contentFiles) = 2
    /\ response.status = 200
    /\ response.body = << "f" >>

\* the file served for the request handled last, and its bytes as stored
ServedKey == ResolvedKey(contentFiles, RequestedPath.value)

StoredBytes == MapGet(contentFiles, ServedKey)

\* C17: the body of a 200 response is the Content Transformer's output for
\* the stored bytes when the served file's MIME type is HTML and
\* openExternalLinksInNewWindow is true, and exactly the stored bytes in
\* every other case.
C17_TransformIffHtml ==
    (event.type = "fetch" /\ response.status = 200) =>
        IF /\ startsWith(getMimeType(ServedKey), << "text/html" >>)
           /\ contentOptions.openExternalLinksInNewWindow = "true"
        THEN /\ response.body = injectExternalLinkHandler(StoredBytes)
             /\ response.body # StoredBytes
        ELSE response.body = StoredBytes

\* bytes with the injected block put before the last </body>, else before
\* the last </html>, else at the end, and nothing else changed
ExpectedInjection(bytes) ==
    LET b == lastIndexOf(bytes, Tok_body_close)
        h == lastIndexOf(bytes, Tok_html_close)
        at == IF b # -1 THEN b ELSE IF h # -1 THEN h ELSE Len(bytes)
    IN  SubSeq(bytes, 1, at) \o EXTERNAL_LINK_HANDLER_SCRIPT
            \o SubSeq(bytes, at + 1, Len(bytes))

\* the number of injected blocks in bytes
InjectedBlocks(bytes) ==
    Cardinality({ i \in 1..Len(bytes) : << bytes[i] >> = EXTERNAL_LINK_HANDLER_SCRIPT })

\* C18: the body of an HTML response that went through the Content
\* Transformer is the stored document with exactly one injected block,
\* immediately before </body> (before </html> without </body>, at the end
\* with neither), every other byte being the stored one.
C18_InjectedOnce ==
    ( /\ event.type = "fetch"
      /\ response.status = 200
      /\ startsWith(response.contentType, << "text/html" >>)
      /\ contentOptions.openExternalLinksInNewWindow = "true" )
        => /\ response.body = ExpectedInjection(StoredBytes)
           /\ InjectedBlocks(response.body) = 1

\* the options a message installs over the defaults
OptionsOf(options) ==
    IF options.present THEN Spread(DefaultOptions, options) ELSE DefaultOptions

\* C19: right after a SET_CONTENT is handled the options in force are the
\* ones it supplied, with the default for what it left out, whatever the
\* options of the ContentSet installed or cleared before.
C19_OptionsNotCarriedOver ==
    event.type = "SET_CONTENT" => contentOptions = OptionsOf(event.options)

\* the CONTENT_CLEARED posted in answer to message n
ClearedReplies(n) ==
    { i \in 1..Len(outbox) : outbox[i].type = "CONTENT_CLEARED" /\ outbox[i].re = n }

\* C20: in the page's load flow a SET_CONTENT is handled only after the
\* CLEAR_CONTENT that precedes it was handled and answered, no other message
\* than GET_STATUS coming between (the first load of a page without
\* controller has nothing to clear), and from the handling of
\* CLEAR_CONTENT until the next SET_CONTENT no viewer request is answered
\* with a file of the old ContentSet.
C20_ClearBeforeInstall ==
    /\ (event.type = "SET_CONTENT" /\ event.id > 1)
          => \E m \in 1..(event.id - 1) :
                /\ ClearedReplies(m) # {}
                /\ \A j \in (m + 1)..(event.id - 1) :
                      \E i \in 1..Len(outbox) :
                          outbox[i].type = "STATUS" /\ outbox[i].re = j
    /\ (event.type = "fetch" /\ lastCmd.type = "CLEAR_CONTENT")
          => response.status # 200

\* the entries of files whose key equals path ignoring case
CaseMatches(files, path) ==
    { i \in 1..Len(files) : toLowerCase(files[i].key) = toLowerCase(path) }

C28_ContentTypeOfServedFile ==
    (event.type = "fetch" /\ response.status = 200) =>
        /\ response.contentType = getMimeType(ServedKey)
        /\ endsWith(ServedKey, Str_slash_index_html)
              => startsWith(response.contentType, << "text/html" >>)

\* bytes that are not valid in the encoding the transformer assumes
InvalidUtf8(bytes) == \E i \in 1..Len(bytes) : bytes[i] = "<xFF>"

\* C30: when the stored bytes of an HTML file that is to be transformed are
\* not valid UTF-8, the response is 200 and its body is exactly the stored
\* bytes.
C30_TransformFailureSwallowed ==
    ( /\ event.type = "fetch"
      /\ RequestedPath.ok
      /\ ServedKey # << >>
      /\ startsWith(getMimeType(RequestedPath.value), << "text/html" >>)
      /\ contentOptions.openExternalLinksInNewWindow = "true"
      /\ InvalidUtf8(StoredBytes) )
        => /\ response.status = 200
           /\ response.body = StoredBytes

\* C29: the CONTENT_READY posted when the save of a SET_CONTENT settles
\* carries the number of entries of the file map that this SET_CONTENT
\* installed, whatever messages were handled while the save was pending.
C29_CountOfOwnInstall ==
    [][ ( /\ DbHead("save")
          /\ Len(outbox') = Len(outbox) + 1
          /\ outbox'[Len(outbox')].type = "CONTENT_READY" )
        => /\ outbox'[Len(outbox')].re = Head(dbQueue).re
           /\ outbox'[Len(outbox')].fileCount
                = MapSize(InstallFiles(<< >>, Head(dbQueue).files)) ]_vars

\* checkSavedContent: the page shows the viewer on this reply to GET_STATUS
ShowsViewer(reply) ==
    reply.type = "STATUS" /\ reply.ready /\ reply.fileCount > 0

\* C24: when the page starts after the ContentSet of the last SET_CONTENT
\* has been persisted, and no operation of the Persistence Layer is pending,
\* the reply to its GET_STATUS makes it show the viewer, with as many files
\* as are persisted.
C24_RestoreOnReload ==
    ( /\ event.type = "GET_STATUS"
      /\ lastCmd.type = "SET_CONTENT"
      /\ PersistedNonEmpty
      /\ db.content = << lastCmd.files >>
      /\ dbQueue = << >> )
        => /\ ShowsViewer(LastReply)
           /\ LastReply.fileCount = MapSize(InstallFiles(<< >>, db.content[1]))

\* the bytes of the archive are not all those of entries
Malformed(archive) == \E i \in 1..Len(archive) : archive[i] = CorruptEntry

\* the messages the page posted since it began to load its current archive
SentForArchive == SubSeq(page.sent, page.loadFrom + 1, Len(page.sent))

\* C21: when the archive the page loads is malformed, the load never gets
\* past the extraction: it ends rejected, with the reason the extraction
\* gave, and no SET_CONTENT is posted for that archive, whatever readable
\* entries it holds.
C21_FailedExtractionInstallsNothing ==
    (page.pos # "idle" /\ Malformed(page.archive)) =>
        /\ page.pos \in {"clearing", "cleared", "failed"}
        /\ page.pos = "failed" => page.error \notin {"none", "emptyZip"}
        /\ \A i \in 1..Len(SentForArchive) : SentForArchive[i].type # "SET_CONTENT"

\* the load of an archive of one readable HTML entry and a corrupt end has
\* been rejected, after the clearing was acknowledged
C21_Witness ==
    /\ page.pos = "failed"
    /\ Malformed(page.archive)
    /\ Len(page.archive) = 2
    /\ IsIndexName(page.archive[1].key)
    /\ page.clearedBy = "ack"
    /\ page.error = "invalid zip data"

\* every entry of the archive is the folder or lies in it, and index.html
\* lies directly in it
WrappedIn(archive, folder) ==
    /\ ~Malformed(archive)
    /\ \A i \in 1..Len(archive) : startsWith(archive[i].key, folder)
    /\ \E i \in 1..Len(archive) : archive[i].key = folder \o Str_index_html

\* the worker has just handled the SET_CONTENT of the archive the page loads
ArchiveInstalled ==
    /\ page.pos \in {"sending", "shown"}
    /\ nextId > Len(page.sent)
    /\ event.type = "SET_CONTENT"

\* C22: when the archive is wrapped in the folder m, which directly holds
\* index.html, then once it is installed no key starts with m/, every file
\* entry m/x is resolved as x, and the lookup of m/index.html fails.
C22_CommonPrefixStripped ==
    (ArchiveInstalled /\ WrappedIn(page.archive, Str_m_slash)) =>
        /\ \A i \in 1..Len(contentFiles) : ~startsWith(contentFiles[i].key, Str_m_slash)
        /\ \A i \in 1..Len(page.archive) :
              Len(page.archive[i].value) > 0 =>
                  Lookup(contentFiles, substring(page.archive[i].key, Len(Str_m_slash)))
                      = page.archive[i].value
        /\ Falsy(Lookup(contentFiles, Str_m_slash \o Str_index_html))

\* the size of a file map: the lengths of its paths and of its contents
RECURSIVE PathsAndBytes(_)
PathsAndBytes(files) ==
    IF files = << >> THEN 0
    ELSE Len(Head(files).key) + Len(Head(files).value) + PathsAndBytes(Tail(files))

\* that size with the tenth that calculateFilesSize adds, rounded up
EstimatedSize(files) == (11 * PathsAndBytes(files) + 9) \div 10

\* C25: whenever SET_CONTENT has been posted for the extracted file map and
\* the host reported its quota and usage, the storage warning was produced
\* exactly when the estimated size of the map exceeds 80% of quota - usage;
\* SET_CONTENT is posted with and without the warning.
C25_StorageWarning ==
    (page.pos \in {"sending", "shown"} /\ page.estimate.present) =>
        /\ page.storageWarning
              <=> 10 * EstimatedSize(page.files)
                     > 8 * (page.estimate.quota - page.estimate.usage)
        /\ Len(SentForArchive) > 0
        /\ SentForArchive[Len(SentForArchive)] = Msg("SET_CONTENT", page.files, DefaultOptions)

\* C23: the wait for CONTENT_CLEARED and the wait for CONTENT_READY end,
\* also when the worker never answers; each ends only by a message of the
\* awaited type or by its timer, never by a rejection; what ended a wait
\* first stays; and after the timer of the wait for CONTENT_READY the
\* viewer is shown, with the number of the files sent and no storage error.
C23_WaitsTerminate ==
    /\ (page.pos = "clearing") ~> (page.pos = "cleared")
    /\ (page.pos = "sending") ~> (page.pos = "shown")
    /\ [][ /\ page.pos = "clearing" =>
                \/ page'.pos = "clearing"
                \/ /\ page'.pos = "cleared"
                   /\ \/ page'.clearedBy = "timeout"
                      \/ /\ page'.clearedBy = "ack"
                         /\ page.read < Len(outbox)
                         /\ outbox[page.read + 1].type = "CONTENT_CLEARED"
           /\ page.pos = "sending" =>
                \/ page'.pos = "sending"
                \/ /\ page'.pos = "shown"
                   /\ \/ /\ page'.readyBy = "timeout"
                         /\ page'.fileCount = Len(page.files)
                         /\ page'.storageError = "none"
                      \/ /\ page'.readyBy = "ack"
                         /\ page.read < Len(outbox)
                         /\ outbox[page.read + 1].type = "CONTENT_READY"
                         /\ page'.fileCount = outbox[page.read + 1].fileCount
                         /\ page'.storageError = outbox[page.read + 1].storageError
           /\ (page.pos = "shown" /\ page'.pos = "shown") =>
                /\ page'.readyBy = page.readyBy
                /\ page'.fileCount = page.fileCount
                /\ page'.storageError = page.storageError ]_vars

\* both waits were ended by their timers, the worker having handled nothing,
\* and the viewer is shown
C23_Witness ==
    /\ page.pos = "shown"
    /\ page.clearedBy = "timeout"
    /\ page.readyBy = "timeout"
    /\ page.fileCount = Len(page.files)
    /\ page.fileCount > 0
    /\ nextId = 1
    /\ outbox = << >>

\* C26: a navigation request outside /viewer/ is answered with the cached
\* entry of its URL when there is one, else with the network's response,
\* and when the network fails with the cached root document; in each of the
\* three cases the page gets a response.
C26_NavigationFallbacks ==
    [][ event'.type = "navigate" =>
          LET url == event'.pathname
              net == event'.error
          IN  /\ MapHas(cache, url) => response' = CachesMatch(cache, url)
              /\ (~MapHas(cache, url) /\ net # "failed")
                    => response' = NetworkResponse(url, net)
              /\ (~MapHas(cache, url) /\ net = "failed")
                    => /\ MapHas(cache, Str_root_index_html)
                       /\ response' = CachesMatch(cache, Str_root_index_html)
              /\ response'.status # NetworkError.status ]_vars

\* C31: no key of a file map that an extraction posted begins with the
\* separator, whatever the names of the entries of the archive.
C31_NoLeadingSeparator ==
    \A n \in 1..Len(zip.out) :
        zip.out[n].type = "complete" =>
            \A k \in 1..Len(zip.out[n].files) :
                ~startsWith(zip.out[n].files[k].key, << "/" >>)

\* the entries of an archive that are named index.html or .../index.html,
\* in the order of the archive
IndexEntries(archive) == SelectSeq(archive, LAMBDA e : IsIndexName(e.key))

SeparatorsIn(path) == Cardinality({ i \in 1..Len(path) : path[i] = "/" })

\* the first segment of a path that has a separator, with that separator
FirstSegment(path) ==
    SubSeq(path, 1, CHOOSE i \in 1..Len(path) :
                        path[i] = "/" /\ \A j \in 1..(i - 1) : path[j] # "/")

\* the path under which the prefix rule stores an entry of the archive
StoredPath(archive, path) ==
    LET found == IndexEntries(archive)
    IN  IF /\ found # << >>
           /\ SeparatorsIn(found[1].key) = 1
           /\ startsWith(path, FirstSegment(found[1].key))
        THEN SubSeq(path, Len(FirstSegment(found[1].key)) + 1, Len(path))
        ELSE path

\* the entries of an archive that are stored: those with content whose
\* stored path is not empty
StoredEntries(archive) ==
    SelectSeq(archive, LAMBDA e : Len(e.value) > 0 /\ StoredPath(archive, e.key) # << >>)

\* C32: the file map that a completed extraction posts holds, for every
\* entry of its archive that is stored, the entry's content under the path
\* the prefix rule gives (the content of the last such entry when two get
\* the same path), and nothing else: the first segment of the first index
\* entry is cut off the paths that start with it when that entry has
\* exactly one separator, and every other path, and every path when the
\* index entry is at the root, deeper, or missing, is kept as it is.
C32_PrefixRule ==
    \A n \in 1..Len(zip.out) :
        zip.out[n].type = "complete" =>
            LET archive == zip.loads[zip.out[n].of].archive
                stored == StoredEntries(archive)
                files == zip.out[n].files
            IN  /\ \A k \in 1..Len(files) :
                      \E i \in 1..Len(stored) :
                          /\ StoredPath(archive, stored[i].key) = files[k].key
                          /\ stored[i].value = files[k].value
                          /\ \A j \in (i + 1)..Len(stored) :
                                StoredPath(archive, stored[j].key) # files[k].key
                /\ \A i \in 1..Len(stored) :
                      \E k \in 1..Len(files) :
                          files[k].key = StoredPath(archive, stored[i].key)
                /\ \A k, l \in 1..Len(files) : files[k].key = files[l].key => k = l

\* an extraction is complete for an archive of m/index.html and x.txt: the
\* one is stored as index.html, the other as x.txt; and another for an
C32_Witness ==
    \E n \in 1..Len(zip.out) :
        /\ zip.out[n].type = "complete"
        /\ LET archive == zip.loads[zip.out[n].of].archive
           IN  /\ Len(archive) = 2
               /\ archive[1].key = Str_m_slash \o Str_index_html
               /\ archive[2].key = << "x", ".", "t", "x", "t" >>
               /\ ObjectKeys(zip.out[n].files)
                      = << Str_index_html, << "x", ".", "t", "x", "t" >> >>

\* the messages the worker posted for the request no. i, in their order
PostedFor(i) == SelectSeq(zip.out, LAMBDA m : m.of = i)

IsTerminal(m) == m.type \in { "complete", "error" }

\* C33: of the messages the worker posts for a request, the first is the
\* progress event 'reading', those after it are progress events 'processed
\* N of total' ('extracting'), and the last, once the worker is done with
\* the request, is the one terminal message: 'complete' with the file map
\* and its size, or 'error' with a message; no message follows a terminal
\* one.  Progress being reported periodically, a completed extraction of an
\* archive of ProgressPeriod entries has reported 'processed N of total' at
\* least once.
C33_ProgressThenOneTerminal ==
    \A i \in 1..Len(zip.loads) :
        LET posted == PostedFor(i)
        IN  /\ zip.stage[i] = "posted" <=> posted = << >>
            /\ posted # << >> =>
                  posted[1].type = "progress" /\ posted[1].message = "reading"
            /\ \A n \in 2..Len(posted) :
                  \/ posted[n].type = "progress" /\ posted[n].message = "extracting"
                  \/ IsTerminal(posted[n]) /\ n = Len(posted)
            /\ zip.stage[i] = "done" <=>
                  (posted # << >> /\ IsTerminal(posted[Len(posted)]))
            /\ \A n \in 1..Len(posted) :
                  /\ posted[n].type = "complete" =>
                        posted[n].fileCount = Len(posted[n].files)
                  /\ posted[n].type = "error" => posted[n].message # "none"
            /\ ( /\ zip.stage[i] = "done"
                 /\ posted[Len(posted)].type = "complete"
                 /\ Len(zip.loads[i].archive) >= ProgressPeriod )
                  => \E n \in 1..Len(posted) :
                        posted[n].type = "progress" /\ posted[n].message = "extracting"

\* the worker is done with every request and the page has handled every
\* message the worker posted
ZipQuiet(z) ==
    /\ \A i \in 1..Len(z.stage) : z.stage[i] = "done"
    /\ z.read = Len(z.out)

\* C38: an extraction of the page is settled only by the terminal message
\* the worker posted for its own request, and so with the file map, or the
\* error, of its own archive; and none is left pending once the worker is
\* done with every request and the page has handled all its messages, also
\* when another extraction was started before it was settled.
C38_EachExtractionOwnResult ==
    [][ /\ \A i \in 1..Len(zip.loads) :
              (zip.loads[i].status = "pending" /\ zip'.loads[i].status # "pending") =>
                  /\ zip.read < Len(zip.out)
                  /\ zip.out[zip.read + 1].of = i
                  /\ zip'.loads[i].status = "resolved" =>
                        /\ ZipWorker(zip.loads[i].archive).type = "complete"
                        /\ zip'.loads[i].files = ZipWorker(zip.loads[i].archive).files
        /\ ZipQuiet(zip') =>
              \A i \in 1..Len(zip'.loads) : zip'.loads[i].status # "pending" ]_vars

\* the steps that handle a request, or a message other than SET_CONTENT and
\* CLEAR_CONTENT
FrameEvents ==
    { "fetch", "navigate", "fetch_lang", "fetch_other", "GET_STATUS",
      "CLAIM_CLIENTS", "SKIP_WAITING", "UNKNOWN" }

\* C34: the handling of a request, under /viewer/ or not, and of a
\* GET_STATUS, CLAIM_CLIENTS, SKIP_WAITING or unknown message leaves the
\* file map, the ready flag and the options as they were.
C34_OnlyInstallAndClearMutate ==
    [][ event'.type \in FrameEvents =>
          /\ contentFiles' = contentFiles
          /\ contentReady' = contentReady
          /\ contentOptions' = contentOptions ]_vars

\* a request under /viewer/ has just been served from a file map installed
\* with options of its own, which GET_STATUS reported before
C34_Witness ==
    /\ event.type = "fetch"
    /\ response.status = 200
    /\ contentReady
    /\ contentFiles # << >>
    /\ contentOptions # DefaultOptions
    /\ \E n \in 1..Len(outbox) : outbox[n].type = "STATUS" /\ outbox[n].fileCount > 0
    /\ claimed
    /\ Len(cache) > Len(AppShellCache)

\* C36: whenever the ready flag is false the file map is empty, and no
\* STATUS reply carries ready = false with a fileCount above 0.
C36_NotReadyMeansEmpty ==
    /\ ~contentReady => contentFiles = << >>
    /\ \A n \in 1..Len(outbox) :
          (outbox[n].type = "STATUS" /\ ~outbox[n].ready) => outbox[n].fileCount = 0

\* GET_STATUS was answered with ready = false and fileCount = 0 by a worker
\* that had installed and saved a file map and was then restarted
C36_Witness ==
    /\ outbox # << >>
    /\ outbox[Len(outbox)].type = "STATUS"
    /\ ~outbox[Len(outbox)].ready
    /\ outbox[Len(outbox)].fileCount = 0
    /\ lastCmd.type = "SET_CONTENT"
    /\ db.content # << >>
    /\ ~contentReady

\* what follows the first occurrence of /viewer/ in a path that contains it
AfterViewer(path) ==
    LET at(i) == i + 7 <= Len(path) /\ SubSeq(path, i, i + 7) = Str_viewer
        first == CHOOSE i \in 1..Len(path) : at(i) /\ \A j \in 1..(i - 1) : ~at(j)
    IN  SubSeq(path, first + 8, Len(path))

WithoutLeadingSeparator(path) ==
    IF path # << >> /\ path[1] = "/" THEN SubSeq(path, 2, Len(path)) ELSE path

\* the virtual file path as stated: index.html for an empty remainder, then
\* one leading separator removed, then the percent-escapes decoded
VirtualPathAsStated(path) ==
    LET rest == AfterViewer(path)
    IN  decodeURIComponent(WithoutLeadingSeparator(
            IF rest = << >> THEN Str_index_html ELSE rest))

\* the same with index.html also for a remainder that is one separator
VirtualPath(path) ==
    LET rest == AfterViewer(path)
    IN  decodeURIComponent(WithoutLeadingSeparator(
            IF rest = << >> \/ rest = << "/" >> THEN Str_index_html ELSE rest))

\* the answer of the virtual file server for a virtual file path
AnswerFor(decoded) ==
    IF ~decoded.ok THEN NetworkError
    ELSE IF ~contentReady \/ MapSize(contentFiles) = 0
    THEN [status |-> 503, body |-> Body_not_loaded, contentType |-> Mime_text_plain,
          cacheControl |-> "", servedBy |-> ""]
    ELSE IF ~Falsy(Lookup(contentFiles, decoded.value))
    THEN ServeFile(decoded.value, Lookup(contentFiles, decoded.value), contentOptions)
    ELSE NotFoundResponse(decoded.value)

RequestEvents == { "fetch", "navigate", "fetch_lang", "fetch_other" }

\* C35 as stated: a request is answered by the virtual file server exactly
\* when its path contains /viewer/, and then for the virtual file path that
\* follows the first /viewer/, with index.html for an empty remainder, then
\* without one leading separator, then decoded.
C35_VirtualPathAsStated ==
    [][ event'.type \in RequestEvents =>
          /\ event'.type = "fetch" <=> includes(event'.pathname, Str_viewer)
          /\ event'.type = "fetch" =>
                response' = AnswerFor(VirtualPathAsStated(event'.pathname)) ]_vars

\* C35, amended: the same, with index.html for a remainder that is empty or
\* is one separator.
C35_VirtualPath ==
    [][ event'.type \in RequestEvents =>
          /\ event'.type = "fetch" <=> includes(event'.pathname, Str_viewer)
          /\ event'.type = "fetch" =>
                response' = AnswerFor(VirtualPath(event'.pathname)) ]_vars

\* /viewer// has been requested and the answer is that for index.html, which
\* the file map does not hold
C35_Witness ==
    /\ event.type = "fetch"
    /\ event.pathname = Str_viewer \o << "/" >>
    /\ response = NotFoundResponse(Str_index_html)
    /\ contentReady
    /\ contentFiles # << >>

\* C37: a wait of the page is ended as acknowledged only by the reply to
\* its own request: the wait for CONTENT_CLEARED by the reply to the
\* CLEAR_CONTENT this load posted, the wait for CONTENT_READY, with its
\* fileCount and storageError, by the reply to the SET_CONTENT this load
\* posted; a reply to a request of an earlier load, whose wait has timed
\* out, ends none.
C37_AcknowledgementOfOwnRequest ==
    [][ /\ (page.pos = "clearing" /\ page'.pos = "cleared" /\ page'.clearedBy = "ack")
              => outbox[page.read + 1].re = page.loadFrom + 1
        /\ (page.pos = "sending" /\ page'.pos = "shown" /\ page'.readyBy = "ack")
              => outbox[page.read + 1].re = Len(page.sent) ]_vars

\* C39: a cleared ContentSet is never resurrected. Once CLEAR_CONTENT has
\* been handled and CONTENT_CLEARED posted, and as long as no later
\* SET_CONTENT is handled, no step of the worker's life cycle (an
\* activation with its restore from the store, a recycle) leaves the
\* context ready or holding a file, and the store eventually holds no
\* persisted entry.
C39_ClearedNotResurrected ==
    /\ [][ ( /\ lastCmd.type = "CLEAR_CONTENT"
             /\ event'.type \in {"activate", "recycle", "load_completed",
                                 "load_open_failed", "load_aborted"} )
              => (~contentReady' /\ MapSize(contentFiles') = 0) ]_vars
    /\ (lastCmd.type = "CLEAR_CONTENT")
          ~> (lastCmd.type # "CLEAR_CONTENT" \/ db = EmptyStore)

\* the three checks on a file map: it is not empty, it has the structure of
\* an eXeLearning export when the page validates, and it holds index.html
\* or a name that ends in .html or .htm
PassesChecks(files, validate) ==
    /\ Len(ObjectKeys(files)) > 0
    /\ validate => isValidExeContent(files)
    /\ \E i \in 1..Len(files) :
          files[i].key = Str_index_html \/ IsHtmlName(files[i].key)

\* the archive the page loads is read in full and its file map fails a check
RejectedArchive ==
    /\ page.pos # "idle"
    /\ ~Malformed(page.archive)
    /\ ~PassesChecks(ZipWorker(page.archive).files, page.validate)

\* the CLEAR_CONTENT the current load posted has been handled
ClearHandled == page.clearedBy # "nocontroller" /\ nextId > page.loadFrom + 1

\* the page's side: every SET_CONTENT the page posted carries a file
\* map that passes the three checks, and the load of an archive whose file
\* map fails one never gets to post SET_CONTENT or to show the viewer.
OnlyCheckedContentSent ==
    /\ \A i \in 1..Len(page.sent) :
          page.sent[i].type = "SET_CONTENT"
             => PassesChecks(page.sent[i].files, page.validate)
    /\ RejectedArchive =>
          /\ page.pos \in {"clearing", "cleared", "failed"}
          /\ page.pos = "failed"
                => page.error \in {"emptyZip", "notExeContent", "noHtmlFiles"}
          /\ \A i \in 1..Len(SentForArchive) : SentForArchive[i].type # "SET_CONTENT"

\* C40: every SET_CONTENT the page posted carries a file map that passes
\* the three checks; the load of an archive whose file map fails one ends
\* rejected, without SET_CONTENT and without the viewer, and once the
\* CLEAR_CONTENT of that load has been handled the worker is not ready and
\* holds no file as long as the page shows the failure.
C40_RejectedLoadLeavesNotReady ==
    /\ OnlyCheckedContentSent
    /\ (RejectedArchive /\ page.pos = "failed" /\ ClearHandled)
          => (~contentReady /\ MapSize(contentFiles) = 0)

====
